---- MODULE Spec2Model ----
(***************************************************************************)
(* A model of the style cascade and layout engine of browser-go.          *)
(*                                                                         *)
(* Text (CSS source, style attributes, property values) is a string read  *)
(* character by character (Ch, SubSeq, Len), so that the parser and the   *)
(* value conversions are computed as the Go code computes them.           *)
(* Lengths are fixed-point integers in hundredths of a pixel (Unit is     *)
(* 1px); the inputs are chosen so that every product is exact.            *)
(*                                                                         *)
(* A value that the Go code keeps in a local variable and reads more than *)
(* once is passed as a parameter to a helper operator, so that it is      *)
(* computed once.                                                          *)
(***************************************************************************)
EXTENDS Integers, Sequences, FiniteSets, TLC

VARIABLES
    op,              \* the last operation that ran ("init" before any)
    css,             \* CSS source text handed to Parse
    sheet,           \* the current Stylesheet
    styleAttr,       \* text of a style="" attribute
    node,            \* the element being styled (with its ancestor chain)
    ctx,             \* MatchContext
    parentFontSize,  \* inherited font-size
    style,           \* the Style the last resolver call returned
    table,           \* the table handed to computeTableLayout: rows of cells
    grid,            \* the geometry computeTableLayout produced
    boxTree,         \* the root LayoutBox handed to ComputeLayout
    pageWidth,       \* the container width handed to ComputeLayout
    layouts,         \* the number of ComputeLayout calls so far
    classAttr,       \* the text of the attribute behind a DOMTokenList
    prev,            \* that text before the last DOMTokenList call
    token,           \* the argument of the last DOMTokenList call
    result,          \* what the last Toggle returned
    calls,           \* the number of DOMTokenList calls so far
    selector,        \* the Selector handed to MatchSelectorNode
    matched,         \* what MatchSelectorNode returned
    wrapArgs,        \* the arguments handed to WrapTextWithSpacing
    wrapLines        \* the lines WrapTextWithSpacing returned

vars ==
    <<op, css, sheet, styleAttr, node, ctx, parentFontSize, style, table, grid,
      boxTree, pageWidth, layouts, classAttr, prev, token, result, calls,
      selector, matched, wrapArgs, wrapLines>>

tableVars == <<table, grid>>
layoutVars == <<boxTree, pageWidth, layouts>>
listVars == <<classAttr, prev, token, result, calls>>
matchVars == <<selector, matched>>
wrapVars == <<wrapArgs, wrapLines>>

(***************************************************************************)
(* Characters and strings                                                  *)
(***************************************************************************)
SetMin(S) == CHOOSE x \in S : \A y \in S : x <= y
SetMax(S) == CHOOSE x \in S : \A y \in S : x >= y
MinOrZero(S) == IF S = {} THEN 0 ELSE SetMin(S)

LowerAlpha == "abcdefghijklmnopqrstuvwxyz"
UpperAlpha == "ABCDEFGHIJKLMNOPQRSTUVWXYZ"
DigitChars == "0123456789"

\* the i-th character of a string (1-based), as a one-character string
Ch(s, i) == SubSeq(s, i, i)

\* the index of the first occurrence of character c in alphabet, or 0
IndexIn(alphabet, c) == MinOrZero({i \in 1..Len(alphabet) : Ch(alphabet, i) = c})

IsSpace(c) == c \in {" ", "\t", "\n", "\r"}
IsDigit(c) == IndexIn(DigitChars, c) > 0
DigitVal(c) == IndexIn(DigitChars, c) - 1
IsLetter(c) == IndexIn(LowerAlpha, c) > 0 \/ IndexIn(UpperAlpha, c) > 0

isIdentChar(c) == IsLetter(c) \/ IsDigit(c) \/ c = "-" \/ c = "_"

lowerAt(c, k) == IF k > 0 THEN Ch(LowerAlpha, k) ELSE c
ToLowerChar(c) == lowerAt(c, IndexIn(UpperAlpha, c))
RECURSIVE ToLower(_)
ToLower(s) == IF s = "" THEN "" ELSE ToLowerChar(Head(s)) \o ToLower(Tail(s))

trimTo(s, keep) == IF keep = {} THEN "" ELSE SubSeq(s, SetMin(keep), SetMax(keep))
TrimSpace(s) == trimTo(s, {i \in 1..Len(s) : ~IsSpace(Ch(s, i))})

HasSuffix(s, suf) ==
    /\ Len(s) >= Len(suf)
    /\ SubSeq(s, Len(s) - Len(suf) + 1, Len(s)) = suf
TrimSuffix(s, suf) == IF HasSuffix(s, suf) THEN SubSeq(s, 1, Len(s) - Len(suf)) ELSE s

\* strings.Split(s, sep) for a one-character separator
RECURSIVE Split(_, _)
splitAt(s, sep, k) ==
    IF k = 0 THEN <<s>>
    ELSE <<SubSeq(s, 1, k - 1)>> \o Split(SubSeq(s, k + 1, Len(s)), sep)
Split(s, sep) == splitAt(s, sep, IndexIn(s, sep))

\* strings.SplitN(s, sep, 2)
splitOnce(s, k) == IF k = 0 THEN <<s>> ELSE <<SubSeq(s, 1, k - 1), SubSeq(s, k + 1, Len(s))>>
SplitN2(s, sep) == splitOnce(s, IndexIn(s, sep))

\* strings.Fields(s): the maximal runs of non-space characters
RECURSIVE Fields(_)
fieldsAt(t, k) ==
    IF t = "" THEN <<>>
    ELSE IF k = 0 THEN <<t>>
    ELSE <<SubSeq(t, 1, k - 1)>> \o Fields(SubSeq(t, k + 1, Len(t)))
fieldsOf(t) == fieldsAt(t, MinOrZero({i \in 1..Len(t) : IsSpace(Ch(t, i))}))
Fields(s) == fieldsOf(TrimSpace(s))

(***************************************************************************)
(* Numbers: strconv.ParseFloat on plain decimals, in hundredths.           *)
(* The input alphabet holds no exponent, hex, "inf" or "nan" spelling.     *)
(***************************************************************************)
Unit == 10 * 10

RECURSIVE DigitsVal(_)
DigitsVal(s) ==
    IF s = "" THEN 0 ELSE DigitsVal(SubSeq(s, 1, Len(s) - 1)) * 10 + DigitVal(Ch(s, Len(s)))

AllDigits(s) == \A i \in 1..Len(s) : IsDigit(Ch(s, i))

\* fractional digits as hundredths (digits beyond the second are dropped)
FracVal(s) ==
    IF Len(s) = 0 THEN 0
    ELSE IF Len(s) = 1 THEN DigitVal(Ch(s, 1)) * 10
    ELSE DigitVal(Ch(s, 1)) * 10 + DigitVal(Ch(s, 2))

NotANumber == [ok |-> FALSE, val |-> 0]
decimalOf(ip, fp, neg) ==
    IF AllDigits(ip) /\ AllDigits(fp) /\ Len(ip) + Len(fp) > 0
    THEN [ok |-> TRUE, val |-> (IF neg THEN 0 - 1 ELSE 1) * (DigitsVal(ip) * Unit + FracVal(fp))]
    ELSE NotANumber
decimalParts(parts, neg) == decimalOf(parts[1], IF Len(parts) = 2 THEN parts[2] ELSE "", neg)
ParseFloat(s) ==
    IF Len(s) > 0 /\ Ch(s, 1) \in {"-", "+"}
    THEN decimalParts(SplitN2(SubSeq(s, 2, Len(s)), "."), Ch(s, 1) = "-")
    ELSE decimalParts(SplitN2(s, "."), FALSE)

\* the product of two hundredths values, in hundredths
Mul(a, b) == (a * b) \div Unit

(***************************************************************************)
(* Data model                                                              *)
(***************************************************************************)
\* Ancestor is <<>> (nil) or <<selector>>
Selector(tag, id, classes, pseudo, anc) ==
    [TagName |-> tag, ID |-> id, Classes |-> classes, PseudoClass |-> pseudo, Ancestor |-> anc]
EmptySelector == Selector("", "", <<>>, "", <<>>)
Declaration(p, v, imp) == [Property |-> p, Value |-> v, Important |-> imp]
Rule(sels, decls) == [Selectors |-> sels, Declarations |-> decls]
Stylesheet(rules) == [Rules |-> rules]

(***************************************************************************)
(* CSS parser (css/parser.go). Positions are 0-based as in the Go code:    *)
(* p.input[p.pos] is Ch(input, pos + 1).                                   *)
(***************************************************************************)
\* the next character, or "" at the end of the input
Peek(input, pos) == IF pos < Len(input) THEN Ch(input, pos + 1) ELSE ""

skipWhitespace(input, pos) ==
    SetMin({q \in pos..Len(input) : ~IsSpace(Peek(input, q))})

identifierTo(input, pos, end) == [str |-> SubSeq(input, pos + 1, end), pos |-> end]
parseIdentifier(input, pos) ==
    identifierTo(input, pos, SetMin({q \in pos..Len(input) : ~isIdentChar(Peek(input, q))}))

valueTo(input, pos, end) == [str |-> TrimSpace(SubSeq(input, pos + 1, end)), pos |-> end]
\* a value reader that reads nothing
parseValueStuck(input, pos) == valueTo(input, pos, pos)

parseValue(input, pos) ==
    valueTo(input, pos, SetMin({q \in pos..Len(input) : Peek(input, q) \in {"", ";", "}"}}))

stripImportant(value) ==
    IF HasSuffix(ToLower(value), "!important")
    THEN [value |-> TrimSpace(SubSeq(value, 1, Len(value) - 10)), important |-> TRUE]
    ELSE [value |-> value, important |-> FALSE]

RECURSIVE simpleSelectorLoop(_, _, _)
withID(input, sel, r) == simpleSelectorLoop(input, r.pos, [sel EXCEPT !.ID = r.str])
withClass(input, sel, r) ==
    simpleSelectorLoop(input, r.pos, [sel EXCEPT !.Classes = Append(@, r.str)])
withTag(input, sel, r) == simpleSelectorLoop(input, r.pos, [sel EXCEPT !.TagName = r.str])
simpleSelectorLoop(input, pos, sel) ==
    IF pos >= Len(input) THEN [sel |-> sel, pos |-> pos]
    ELSE IF Peek(input, pos) = "#" THEN withID(input, sel, parseIdentifier(input, pos + 1))
    ELSE IF Peek(input, pos) = "." THEN withClass(input, sel, parseIdentifier(input, pos + 1))
    ELSE IF isIdentChar(Peek(input, pos)) THEN withTag(input, sel, parseIdentifier(input, pos))
    ELSE [sel |-> sel, pos |-> pos]

parseSimpleSelector(input, pos) ==
    simpleSelectorLoop(input, skipWhitespace(input, pos), EmptySelector)

\* parts[i] as the subject, parts[i-1] .. parts[1] as its ancestors
RECURSIVE ancestorChain(_, _)
ancestorChain(parts, i) ==
    IF i = 1 THEN parts[1]
    ELSE [parts[i] EXCEPT !.Ancestor = <<ancestorChain(parts, i - 1)>>]

RECURSIVE compoundLoop(_, _, _)
\* after a part: peek past the whitespace (at p2) for a descendant combinator
compoundPeek(input, parts, savedPos, p2) ==
    IF Peek(input, p2) \in {"", "{", ",", ":"} THEN [parts |-> parts, pos |-> savedPos]
    ELSE IF Peek(input, p2) \in {"#", "."} \/ isIdentChar(Peek(input, p2))
    THEN compoundLoop(input, p2, parts)
    ELSE [parts |-> parts, pos |-> savedPos]
compoundPart(input, parts, r) ==
    IF r.sel.TagName = "" /\ r.sel.ID = "" /\ Len(r.sel.Classes) = 0
    THEN [parts |-> parts, pos |-> r.pos]
    ELSE compoundPeek(input, Append(parts, r.sel), r.pos, skipWhitespace(input, r.pos))
compoundLoop(input, pos, parts) == compoundPart(input, parts, parseSimpleSelector(input, pos))

compoundOf(r) ==
    IF Len(r.parts) = 0
    THEN [sel |-> EmptySelector, valid |-> FALSE, pos |-> r.pos]
    ELSE [sel |-> ancestorChain(r.parts, Len(r.parts)), valid |-> TRUE, pos |-> r.pos]
parseCompoundSelector(input, pos) == compoundOf(compoundLoop(input, pos, <<>>))

RECURSIVE selectorsLoop(_, _, _)
selectorsNext(input, sels, p) ==
    IF p >= Len(input) \/ Peek(input, p) = "{" THEN [sels |-> sels, pos |-> p]
    ELSE selectorsLoop(input, p + 1, sels)
selectorsStep(input, sels, r) ==
    selectorsNext(input, IF r.valid THEN Append(sels, r.sel) ELSE sels,
                  skipWhitespace(input, r.pos))
selectorsLoop(input, pos, sels) == selectorsStep(input, sels, parseCompoundSelector(input, pos))

parseSelectors(input, pos) == selectorsLoop(input, pos, <<>>)

\* skip the character c if it is next
skipChar(input, pos, c) == IF Peek(input, pos) = c /\ pos < Len(input) THEN pos + 1 ELSE pos

declarationOf(property, si, pos) ==
    [decl |-> Declaration(property, si.value, si.important), pos |-> pos]
declarationValue(input, property, val) ==
    declarationOf(property, stripImportant(val.str), skipChar(input, val.pos, ";"))
declarationProperty(input, prop) ==
    declarationValue(input, prop.str,
        parseValue(input,
            skipWhitespace(input, skipChar(input, skipWhitespace(input, prop.pos), ":"))))
parseDeclaration(input, pos) ==
    declarationProperty(input, parseIdentifier(input, skipWhitespace(input, pos)))

RECURSIVE declarationsLoop(_, _, _)
declarationsStep(input, decls, r) ==
    declarationsLoop(input, r.pos,
                     IF r.decl.Property # "" THEN Append(decls, r.decl) ELSE decls)
declarationsAt(input, decls, p) ==
    IF p >= Len(input) \/ Peek(input, p) = "}" THEN [decls |-> decls, pos |-> p]
    ELSE declarationsStep(input, decls, parseDeclaration(input, p))
declarationsLoop(input, pos, decls) ==
    IF ~(pos < Len(input) /\ Peek(input, pos) # "}") THEN [decls |-> decls, pos |-> pos]
    ELSE declarationsAt(input, decls, skipWhitespace(input, pos))

declarationsEnd(input, r) == [decls |-> r.decls, pos |-> skipChar(input, r.pos, "}")]
parseDeclarations(input, pos) ==
    declarationsEnd(input,
        declarationsLoop(input, skipChar(input, skipWhitespace(input, pos), "{"), <<>>))

ruleOf(s, d) == [rule |-> Rule(s.sels, d.decls), pos |-> d.pos]
ruleDeclarations(input, s) == ruleOf(s, parseDeclarations(input, s.pos))
parseRule(input, pos) == ruleDeclarations(input, parseSelectors(input, pos))

RECURSIVE stylesheetLoop(_, _, _)
stylesheetStep(input, rules, r) == stylesheetLoop(input, r.pos, Append(rules, r.rule))
stylesheetAt(input, rules, p) ==
    IF p >= Len(input) THEN rules ELSE stylesheetStep(input, rules, parseRule(input, p))
stylesheetLoop(input, pos, rules) ==
    IF pos >= Len(input) THEN rules ELSE stylesheetAt(input, rules, skipWhitespace(input, pos))

parseStylesheet(input) == Stylesheet(stylesheetLoop(input, 0, <<>>))

Parse(input) == parseStylesheet(input)

(***************************************************************************)
(* Value conversions                                                       *)
(***************************************************************************)
DefaultFontSize == 16 * Unit
DefaultViewportWidth == 0
DefaultViewportHeight == 0

\* A color is <<r, g, b, a>>; the nil color.Color is <<>>.
NoColor == <<>>
Red == <<255, 0, 0, 255>>
Green == <<0, 128, 0, 255>>
Blue == <<0, 0, 255, 255>>
LinkBlue == <<0, 0, 238, 255>>
VisitedPurple == <<85, 26, 139, 255>>

\* The named colours of the input alphabet; hex colours are not in it.
namedColor(v) ==
    CASE v = "red" -> Red
      [] v = "green" -> Green
      [] v = "blue" -> Blue
      [] v = "black" -> <<0, 0, 0, 255>>
      [] v = "white" -> <<255, 255, 255, 255>>
      [] v = "purple" -> <<128, 0, 128, 255>>
      [] OTHER -> NoColor
ParseColor(value) == namedColor(ToLower(value))

\* the unit suffix the size is read with ("" for a plain number)
unitSuffix(v) ==
    CASE HasSuffix(v, "vh") -> "vh"
      [] HasSuffix(v, "vw") -> "vw"
      [] HasSuffix(v, "em") -> "em"
      [] HasSuffix(v, "px") -> "px"
      [] OTHER -> ""

\* num is ParseFloat of the text before the unit u
sizeInUnit(u, num, baseFontSize, viewportWidth, viewportHeight) ==
    IF ~num.ok THEN 0
    ELSE CASE u = "vh" -> (num.val * viewportHeight) \div (100 * Unit)
           [] u = "vw" -> (num.val * viewportWidth) \div (100 * Unit)
           [] u = "em" -> Mul(num.val, baseFontSize)
           [] OTHER -> num.val
sizeWithUnit(v, u, baseFontSize, viewportWidth, viewportHeight) ==
    sizeInUnit(u, ParseFloat(TrimSuffix(v, u)), baseFontSize, viewportWidth, viewportHeight)
sizeOfLower(v, baseFontSize, viewportWidth, viewportHeight) ==
    sizeWithUnit(v, unitSuffix(v), baseFontSize, viewportWidth, viewportHeight)

ParseSizeWithContext(value, baseFontSize, viewportWidth, viewportHeight) ==
    sizeOfLower(TrimSpace(ToLower(value)), baseFontSize, viewportWidth, viewportHeight)

ParseSize(value) ==
    ParseSizeWithContext(value, DefaultFontSize, DefaultViewportWidth, DefaultViewportHeight)

lineHeightNumber(num, factor) == IF num.ok THEN Mul(num.val, factor) ELSE 0
lineHeightOf(v, fontSize) ==
    IF v = "normal" THEN Mul(fontSize, 120)
    ELSE IF HasSuffix(v, "px") THEN lineHeightNumber(ParseFloat(TrimSuffix(v, "px")), Unit)
    ELSE lineHeightNumber(ParseFloat(v), fontSize)
parseLineHeight(value, fontSize) == lineHeightOf(TrimSpace(ToLower(value)), fontSize)

parseMarginValue(value, fontSize, vw, vh) ==
    IF ToLower(value) = "auto" THEN [size |-> 0, auto |-> TRUE]
    ELSE [size |-> ParseSizeWithContext(value, fontSize, vw, vh), auto |-> FALSE]

spacingOf(v, fontSize, viewportWidth, viewportHeight) ==
    IF v = "" THEN [val |-> 0, ok |-> FALSE]
    ELSE IF v = "normal" THEN [val |-> 0, ok |-> TRUE]
    ELSE IF ~ParseFloat(TrimSuffix(v, unitSuffix(v))).ok THEN [val |-> 0, ok |-> FALSE]
    ELSE [val |-> ParseSizeWithContext(v, fontSize, viewportWidth, viewportHeight), ok |-> TRUE]
parseSpacingWithContext(value, fontSize, viewportWidth, viewportHeight) ==
    spacingOf(TrimSpace(ToLower(value)), fontSize, viewportWidth, viewportHeight)

\* Font names separated by commas (quoted names are not in the input alphabet).
RECURSIVE fontNames(_)
fontName(name, rest) == (IF name = "" THEN <<>> ELSE <<name>>) \o fontNames(rest)
fontNames(parts) == IF parts = <<>> THEN <<>> ELSE fontName(TrimSpace(Head(parts)), Tail(parts))
ParseFontFamily(value) == fontNames(Split(value, ","))

(***************************************************************************)
(* Style                                                                   *)
(* The record holds the fields of css.Style that the modelled properties  *)
(* write; the other properties of applyDeclaration (backgrounds, border   *)
(* shorthands, display, position, ...) are not in the input alphabet.     *)
(***************************************************************************)
DefaultStyle ==
    [Color |-> NoColor, FontSize |-> DefaultFontSize, FontVariant |-> "", LineHeight |-> 0,
     Bold |-> FALSE, Italic |-> FALSE, FontFamily |-> <<>>,
     MarginTop |-> 0, MarginBottom |-> 0, MarginLeft |-> 0, MarginRight |-> 0,
     MarginLeftAuto |-> FALSE, MarginRightAuto |-> FALSE,
     PaddingTop |-> 0, PaddingBottom |-> 0, PaddingLeft |-> 0, PaddingRight |-> 0,
     TextAlign |-> "", TextDecoration |-> "",
     Top |-> 0, Left |-> 0, Right |-> 0, Bottom |-> 0,
     TopSet |-> FALSE, LeftSet |-> FALSE, RightSet |-> FALSE, BottomSet |-> FALSE,
     LetterSpacing |-> 0, LetterSpacingSet |-> FALSE,
     WordSpacing |-> 0, WordSpacingSet |-> FALSE,
     Width |-> 0, WidthPercent |-> 0, Height |-> 0,
     MinWidth |-> 0, MaxWidth |-> 0, MinHeight |-> 0, MaxHeight |-> 0,
     BorderTopWidth |-> 0, BorderRightWidth |-> 0, BorderBottomWidth |-> 0,
     BorderLeftWidth |-> 0, BorderRadius |-> 0]

\* "if x := f(v); x > 0 { style.F = x }"
SetIfPositive(st, field, x) == IF x > 0 THEN [st EXCEPT ![field] = x] ELSE st

setColor(st, c) == IF c # NoColor THEN [st EXCEPT !.Color = c] ELSE st

setLetterSpacing(st, r) ==
    IF r.ok THEN [st EXCEPT !.LetterSpacing = r.val, !.LetterSpacingSet = TRUE] ELSE st
setWordSpacing(st, r) ==
    IF r.ok THEN [st EXCEPT !.WordSpacing = r.val, !.WordSpacingSet = TRUE] ELSE st

setWidthPercent(st, pct) == IF pct.ok /\ pct.val > 0 THEN [st EXCEPT !.WidthPercent = pct.val] ELSE st
\* t is the trimmed value, size its length when it is no percentage
widthOf(st, t, size) ==
    IF HasSuffix(t, "%") THEN setWidthPercent(st, ParseFloat(TrimSuffix(t, "%")))
    ELSE SetIfPositive(st, "Width", size)
applyWidth(st, value, size) == widthOf(st, TrimSpace(value), size)

\* size is ParseSize(value)
applySized(st, property, value, size) ==
    CASE property = "color" -> setColor(st, ParseColor(value))
      [] property = "font-size" -> SetIfPositive(st, "FontSize", size)
      [] property = "line-height" -> [st EXCEPT !.LineHeight = parseLineHeight(value, st.FontSize)]
      [] property = "font-weight" -> [st EXCEPT !.Bold = (value = "bold")]
      [] property = "font-style" -> [st EXCEPT !.Italic = (value = "italic")]
      [] property = "font-family" -> [st EXCEPT !.FontFamily = ParseFontFamily(value)]
      [] property = "font-variant" -> [st EXCEPT !.FontVariant = value]
      [] property = "margin" ->
            [st EXCEPT !.MarginTop = size, !.MarginBottom = size,
                       !.MarginLeft = size, !.MarginRight = size]
      [] property = "margin-top" -> [st EXCEPT !.MarginTop = size]
      [] property = "margin-bottom" -> [st EXCEPT !.MarginBottom = size]
      [] property = "margin-left" -> [st EXCEPT !.MarginLeft = size]
      [] property = "margin-right" -> [st EXCEPT !.MarginRight = size]
      [] property = "padding" ->
            [st EXCEPT !.PaddingTop = size, !.PaddingBottom = size,
                       !.PaddingLeft = size, !.PaddingRight = size]
      [] property = "padding-top" -> [st EXCEPT !.PaddingTop = size]
      [] property = "padding-bottom" -> [st EXCEPT !.PaddingBottom = size]
      [] property = "padding-left" -> [st EXCEPT !.PaddingLeft = size]
      [] property = "padding-right" -> [st EXCEPT !.PaddingRight = size]
      [] property = "text-align" -> [st EXCEPT !.TextAlign = value]
      [] property = "top" -> [st EXCEPT !.Top = size, !.TopSet = TRUE]
      [] property = "left" -> [st EXCEPT !.Left = size, !.LeftSet = TRUE]
      [] property = "right" -> [st EXCEPT !.Right = size, !.RightSet = TRUE]
      [] property = "bottom" -> [st EXCEPT !.Bottom = size, !.BottomSet = TRUE]
      [] property = "text-decoration" -> [st EXCEPT !.TextDecoration = value]
      [] property = "letter-spacing" ->
            setLetterSpacing(st, parseSpacingWithContext(value, st.FontSize,
                                     DefaultViewportWidth, DefaultViewportHeight))
      [] property = "word-spacing" ->
            setWordSpacing(st, parseSpacingWithContext(value, st.FontSize,
                                   DefaultViewportWidth, DefaultViewportHeight))
      [] property = "border-width" ->
            [st EXCEPT !.BorderTopWidth = size, !.BorderRightWidth = size,
                       !.BorderBottomWidth = size, !.BorderLeftWidth = size]
      [] property = "width" -> applyWidth(st, value, size)
      [] property = "height" -> SetIfPositive(st, "Height", size)
      [] property = "min-width" -> SetIfPositive(st, "MinWidth", size)
      [] property = "max-width" -> SetIfPositive(st, "MaxWidth", size)
      [] property = "min-height" -> SetIfPositive(st, "MinHeight", size)
      [] property = "max-height" -> SetIfPositive(st, "MaxHeight", size)
      [] property = "border-radius" -> [st EXCEPT !.BorderRadius = size]
      [] OTHER -> st

applyDeclaration(st, property, value) == applySized(st, property, value, ParseSize(value))

\* m[i] is parseMarginValue of the i-th of the n space-separated values
marginOf(st, n, m) ==
    CASE n = 1 -> [st EXCEPT !.MarginTop = m[1].size, !.MarginRight = m[1].size,
                             !.MarginBottom = m[1].size, !.MarginLeft = m[1].size,
                             !.MarginRightAuto = m[1].auto, !.MarginLeftAuto = m[1].auto]
      [] n = 2 -> [st EXCEPT !.MarginTop = m[1].size, !.MarginRight = m[2].size,
                             !.MarginBottom = m[1].size, !.MarginLeft = m[2].size,
                             !.MarginRightAuto = m[2].auto, !.MarginLeftAuto = m[2].auto]
      [] n = 3 -> [st EXCEPT !.MarginTop = m[1].size, !.MarginRight = m[2].size,
                             !.MarginBottom = m[3].size, !.MarginLeft = m[2].size,
                             !.MarginRightAuto = m[2].auto, !.MarginLeftAuto = m[2].auto]
      [] n = 4 -> [st EXCEPT !.MarginTop = m[1].size, !.MarginRight = m[2].size,
                             !.MarginBottom = m[3].size, !.MarginLeft = m[4].size,
                             !.MarginRightAuto = m[2].auto, !.MarginLeftAuto = m[4].auto]
      [] OTHER -> [st EXCEPT !.MarginTop = 0, !.MarginRight = 0,
                             !.MarginBottom = 0, !.MarginLeft = 0,
                             !.MarginRightAuto = FALSE, !.MarginLeftAuto = FALSE]
marginParts(st, parts, vw, vh) ==
    marginOf(st, Len(parts),
             [i \in 1..Len(parts) |-> parseMarginValue(parts[i], st.FontSize, vw, vh)])
marginShorthand(st, value, vw, vh) == marginParts(st, Fields(value), vw, vh)

\* own is ParseSizeWithContext(value, style.FontSize, vw, vh)
applyOwnSized(st, property, value, baseFontSize, viewportWidth, viewportHeight, own) ==
    CASE property = "font-size" ->
            SetIfPositive(st, "FontSize",
                ParseSizeWithContext(value, baseFontSize, viewportWidth, viewportHeight))
      [] property = "margin" -> marginShorthand(st, value, viewportWidth, viewportHeight)
      [] property = "margin-top" -> [st EXCEPT !.MarginTop = own]
      [] property = "margin-bottom" -> [st EXCEPT !.MarginBottom = own]
      [] property = "margin-left" ->
            (IF ToLower(value) = "auto" THEN [st EXCEPT !.MarginLeftAuto = TRUE]
             ELSE [st EXCEPT !.MarginLeft = own, !.MarginLeftAuto = FALSE])
      [] property = "margin-right" ->
            (IF ToLower(value) = "auto" THEN [st EXCEPT !.MarginRightAuto = TRUE]
             ELSE [st EXCEPT !.MarginRight = own, !.MarginRightAuto = FALSE])
      [] property = "padding" ->
            [st EXCEPT !.PaddingTop = own, !.PaddingBottom = own,
                       !.PaddingLeft = own, !.PaddingRight = own]
      [] property = "padding-top" -> [st EXCEPT !.PaddingTop = own]
      [] property = "padding-bottom" -> [st EXCEPT !.PaddingBottom = own]
      [] property = "padding-left" -> [st EXCEPT !.PaddingLeft = own]
      [] property = "padding-right" -> [st EXCEPT !.PaddingRight = own]
      [] property = "width" -> applyWidth(st, value, own)
      [] property = "height" -> SetIfPositive(st, "Height", own)
      [] property = "line-height" -> [st EXCEPT !.LineHeight = parseLineHeight(value, st.FontSize)]
      [] property = "letter-spacing" ->
            setLetterSpacing(st, parseSpacingWithContext(value, st.FontSize,
                                     viewportWidth, viewportHeight))
      [] property = "word-spacing" ->
            setWordSpacing(st, parseSpacingWithContext(value, st.FontSize,
                                   viewportWidth, viewportHeight))
      [] OTHER -> applyDeclaration(st, property, value)

applyDeclarationWithContext(st, property, value, baseFontSize, viewportWidth, viewportHeight) ==
    applyOwnSized(st, property, value, baseFontSize, viewportWidth, viewportHeight,
                  ParseSizeWithContext(value, st.FontSize, viewportWidth, viewportHeight))

(***************************************************************************)
(* Selector matching and specificity                                       *)
(***************************************************************************)
\* A node is [Type, TagName, Attributes: [id, class, href], Parent], where
\* Parent is <<>> (nil) or <<n>>; an attribute that is absent reads as "".
Element(tag, id, class, href, parent) ==
    [Type |-> "Element", TagName |-> tag,
     Attributes |-> [id |-> id, class |-> class, href |-> href], Parent |-> parent]

\* MatchContext: IsVisited is <<>> (nil) or <<S>>, S the set of visited URLs;
\* ResolveURL is <<>> (nil) or <<base>>, resolving href to base \o href.
MatchContext(visited, resolveURL) == [IsVisited |-> visited, ResolveURL |-> resolveURL]
EmptyContext == MatchContext(<<>>, <<>>)

ZeroSpecificity == <<0, 0, 0>>

LessThan(s, o) ==
    \/ s[1] < o[1]
    \/ s[1] = o[1] /\ s[2] < o[2]
    \/ s[1] = o[1] /\ s[2] = o[2] /\ s[3] < o[3]

RECURSIVE selectorSpecificity(_)
addSpecificity(sel, anc) ==
    << (IF sel.ID # "" THEN 1 ELSE 0) + anc[1],
       Len(sel.Classes) + (IF sel.PseudoClass # "" THEN 1 ELSE 0) + anc[2],
       (IF sel.TagName # "" THEN 1 ELSE 0) + anc[3] >>
selectorSpecificity(sel) ==
    addSpecificity(sel, IF sel.Ancestor # <<>> THEN selectorSpecificity(sel.Ancestor[1])
                        ELSE ZeroSpecificity)

MatchSelector(sel, tagName, id, classes) ==
    /\ sel.TagName = "" \/ sel.TagName = tagName
    /\ sel.ID = "" \/ sel.ID = id
    /\ \A i \in 1..Len(sel.Classes) : \E j \in 1..Len(classes) : sel.Classes[i] = classes[j]

resolveHref(href, c) == IF c.ResolveURL # <<>> THEN c.ResolveURL[1] \o href ELSE href
isVisited(href, c) == c.IsVisited # <<>> /\ resolveHref(href, c) \in c.IsVisited[1]

\* a matcher that takes every link for unvisited and for visited
pseudoIgnoringVisited(pseudo, href, c) ==
    pseudo = "" \/ (pseudo \in {"link", "visited"} /\ href # "")

matchPseudoClass(pseudo, href, c) ==
    CASE pseudo = "" -> TRUE
      [] pseudo = "link" -> href # "" /\ ~isVisited(href, c)
      [] pseudo = "visited" -> href # "" /\ isVisited(href, c)
      [] OTHER -> FALSE

RECURSIVE MatchSelectorNode(_, _, _)
RECURSIVE matchAncestor(_, _, _)
\* a walk that looks at the parent only
matchParentOnly(anc, p, c) == p # <<>> /\ MatchSelectorNode(anc, p[1], c)

\* the walk up the tree from p, a Parent field
matchAncestor(anc, p, c) ==
    IF p = <<>> THEN FALSE
    ELSE IF p[1].Type # "Element" THEN matchAncestor(anc, p[1].Parent, c)
    ELSE IF MatchSelectorNode(anc, p[1], c) THEN TRUE
    ELSE matchAncestor(anc, p[1].Parent, c)

MatchSelectorNode(sel, n, c) ==
    IF n.Type # "Element" THEN FALSE
    ELSE IF ~MatchSelector(sel, n.TagName, n.Attributes.id, Fields(n.Attributes.class)) THEN FALSE
    ELSE IF ~matchPseudoClass(sel.PseudoClass, n.Attributes.href, c) THEN FALSE
    ELSE IF sel.Ancestor = <<>> THEN TRUE
    ELSE matchAncestor(sel.Ancestor[1], n.Parent, c)

(***************************************************************************)
(* Cascade                                                                 *)
(***************************************************************************)
verticalMargins(st, m) == [st EXCEPT !.MarginTop = m, !.MarginBottom = m]

applyUserAgentDefaults(st, tagName, fontSize, n, c) ==
    CASE tagName \in {"p", "dl", "h3"} -> verticalMargins(st, fontSize)
      [] tagName = "h1" -> verticalMargins(st, Mul(fontSize, 67))
      [] tagName = "h2" -> verticalMargins(st, Mul(fontSize, 83))
      [] tagName = "h4" -> verticalMargins(st, Mul(fontSize, 133))
      [] tagName = "h5" -> verticalMargins(st, Mul(fontSize, 167))
      [] tagName = "h6" -> verticalMargins(st, Mul(fontSize, 233))
      [] tagName \in {"ul", "ol"} ->
            [st EXCEPT !.MarginTop = fontSize, !.MarginBottom = fontSize,
                       !.PaddingLeft = 40 * Unit]
      [] tagName = "blockquote" ->
            [st EXCEPT !.MarginTop = fontSize, !.MarginBottom = fontSize,
                       !.MarginLeft = 40 * Unit, !.MarginRight = 40 * Unit]
      [] tagName = "hr" -> verticalMargins(st, Mul(fontSize, 50))
      [] tagName = "a" ->
            (IF n.Attributes.href # ""
             THEN [st EXCEPT !.TextDecoration = "underline",
                             !.Color = IF isVisited(n.Attributes.href, c)
                                       THEN VisitedPurple ELSE LinkBlue]
             ELSE st)
      [] OTHER -> st

\* The resolver's running state: the style, importantProps as the set of
\* properties whose map entry is true, and specificities as a function from
\* the recorded properties to their winning specificity (a missing entry
\* reads as Specificity{}).
Cascade(st) == [style |-> st, importantProps |-> {}, specificities |-> <<>>]

specificityOf(m, property) == IF property \in DOMAIN m THEN m[property] ELSE ZeroSpecificity
recordSpecificity(m, property, sp) ==
    [q \in DOMAIN m \cup {property} |-> IF q = property THEN sp ELSE m[q]]

\* ruleSpecificity: the highest specificity among the rule's matching selectors
RECURSIVE ruleSpecificityLoop(_, _, _, _, _)
ruleSpecificityStep(sels, i, n, c, acc, sp) ==
    IF MatchSelectorNode(sels[i], n, c) /\ (~acc.found \/ LessThan(acc.best, sp))
    THEN ruleSpecificityLoop(sels, i + 1, n, c, [best |-> sp, found |-> TRUE])
    ELSE ruleSpecificityLoop(sels, i + 1, n, c, acc)
ruleSpecificityLoop(sels, i, n, c, acc) ==
    IF i > Len(sels) THEN acc
    ELSE ruleSpecificityStep(sels, i, n, c, acc, selectorSpecificity(sels[i]))
ruleSpecificity(rule, n, c) ==
    ruleSpecificityLoop(rule.Selectors, 1, n, c, [best |-> ZeroSpecificity, found |-> FALSE])

\* a cascade without specificity: the later declaration always applies
losesToNothing(sp, won) == FALSE

\* "specificities[p] != (Specificity{}) && sp.LessThan(specificities[p])"
losesTo(sp, won) == won # ZeroSpecificity /\ LessThan(sp, won)

\* a declaration that applies: the style is updated, the property recorded
declarationWins(acc, p, important, sp, st) ==
    [style |-> st,
     importantProps |-> IF important THEN acc.importantProps \cup {p} ELSE acc.importantProps,
     specificities |-> IF important THEN acc.specificities
                       ELSE recordSpecificity(acc.specificities, p, sp)]

\* one declaration of a matching rule in the first pass (font-size only)
firstPassDeclaration(acc, decl, sp, parentFS, vw, vh) ==
    IF decl.Property # "font-size" THEN acc
    ELSE IF "font-size" \in acc.importantProps /\ ~decl.Important THEN acc
    ELSE IF ~decl.Important /\ losesTo(sp, specificityOf(acc.specificities, "font-size")) THEN acc
    ELSE declarationWins(acc, "font-size", decl.Important, sp,
             SetIfPositive(acc.style, "FontSize",
                           ParseSizeWithContext(decl.Value, parentFS, vw, vh)))

\* a second pass that does not look at importantProps
secondPassUnguarded(acc, decl, sp, parentFS, vw, vh) ==
    IF decl.Property = "font-size" THEN acc
    ELSE IF ~decl.Important /\ losesTo(sp, specificityOf(acc.specificities, decl.Property))
    THEN acc
    ELSE declarationWins(acc, decl.Property, decl.Important, sp,
             applyDeclarationWithContext(acc.style, decl.Property, decl.Value,
                                         acc.style.FontSize, vw, vh))

\* one declaration of a matching rule in the second pass (everything else)
secondPassDeclaration(acc, decl, sp, parentFS, vw, vh) ==
    IF decl.Property = "font-size" THEN acc
    ELSE IF decl.Property \in acc.importantProps /\ ~decl.Important THEN acc
    ELSE IF ~decl.Important /\ losesTo(sp, specificityOf(acc.specificities, decl.Property))
    THEN acc
    ELSE declarationWins(acc, decl.Property, decl.Important, sp,
             applyDeclarationWithContext(acc.style, decl.Property, decl.Value,
                                         acc.style.FontSize, vw, vh))

\* a single pass: every declaration applies in document order
onePassDeclaration(acc, decl, sp, pass, parentFS, vw, vh) ==
    IF pass # 1 THEN acc
    ELSE IF decl.Property = "font-size"
    THEN firstPassDeclaration(acc, decl, sp, parentFS, vw, vh)
    ELSE secondPassDeclaration(acc, decl, sp, parentFS, vw, vh)

cascadeDeclaration(acc, decl, sp, pass, parentFS, vw, vh) ==
    IF pass = 1 THEN firstPassDeclaration(acc, decl, sp, parentFS, vw, vh)
    ELSE secondPassDeclaration(acc, decl, sp, parentFS, vw, vh)

RECURSIVE cascadeDeclarations(_, _, _, _, _, _, _, _)
cascadeDeclarations(acc, decls, i, sp, pass, parentFS, vw, vh) ==
    IF i > Len(decls) THEN acc
    ELSE cascadeDeclarations(cascadeDeclaration(acc, decls[i], sp, pass, parentFS, vw, vh),
                             decls, i + 1, sp, pass, parentFS, vw, vh)

cascadeRule(acc, rule, rs, pass, parentFS, vw, vh) ==
    IF rs.found
    THEN cascadeDeclarations(acc, rule.Declarations, 1, rs.best, pass, parentFS, vw, vh)
    ELSE acc

RECURSIVE cascadeRules(_, _, _, _, _, _, _, _, _)
cascadeRules(acc, rules, i, n, c, pass, parentFS, vw, vh) ==
    IF i > Len(rules) THEN acc
    ELSE cascadeRules(cascadeRule(acc, rules[i], ruleSpecificity(rules[i], n, c),
                                  pass, parentFS, vw, vh),
                      rules, i + 1, n, c, pass, parentFS, vw, vh)

\* "if style.FontSize == 0 { style.FontSize = parentFontSize }"
inheritFontSize(acc, parentFS) ==
    IF acc.style.FontSize = 0 THEN [acc EXCEPT !.style.FontSize = parentFS] ELSE acc

ApplyStylesheetWithContext(sh, n, parentFS, vw, vh, c) ==
    cascadeRules(
        inheritFontSize(
            cascadeRules(Cascade(applyUserAgentDefaults(DefaultStyle, n.TagName, parentFS, n, c)),
                         sh.Rules, 1, n, c, 1, parentFS, vw, vh),
            parentFS),
        sh.Rules, 1, n, c, 2, parentFS, vw, vh).style

\* ApplyStylesheet and ParseInlineStyle: importance only, no specificity
plainDeclaration(acc, decl) ==
    IF decl.Property \in acc.importantProps /\ ~decl.Important THEN acc
    ELSE [acc EXCEPT !.style = applyDeclaration(acc.style, decl.Property, decl.Value),
                     !.importantProps = IF decl.Important THEN @ \cup {decl.Property} ELSE @]

RECURSIVE plainDeclarations(_, _, _)
plainDeclarations(acc, decls, i) ==
    IF i > Len(decls) THEN acc
    ELSE plainDeclarations(plainDeclaration(acc, decls[i]), decls, i + 1)

ruleMatches(rule, tagName, id, classes) ==
    \E k \in 1..Len(rule.Selectors) : MatchSelector(rule.Selectors[k], tagName, id, classes)

RECURSIVE plainRules(_, _, _, _, _, _)
plainRules(acc, rules, i, tagName, id, classes) ==
    IF i > Len(rules) THEN acc
    ELSE plainRules(IF ruleMatches(rules[i], tagName, id, classes)
                    THEN plainDeclarations(acc, rules[i].Declarations, 1) ELSE acc,
                    rules, i + 1, tagName, id, classes)

ApplyStylesheet(sh, tagName, id, classes) ==
    plainRules(Cascade(DefaultStyle), sh.Rules, 1, tagName, id, classes).style

(***************************************************************************)
(* Inline style attributes                                                 *)
(***************************************************************************)
\* The declarations of a style attribute: split on ";", drop the blank
\* parts and those with no ":", trim, strip !important.
inlineDeclarationOf(property, si) == Declaration(property, si.value, si.important)
inlineKeyValue(kv) ==
    IF Len(kv) # 2 THEN <<>>
    ELSE <<inlineDeclarationOf(TrimSpace(kv[1]), stripImportant(TrimSpace(kv[2])))>>
inlinePart(part) == IF part = "" THEN <<>> ELSE inlineKeyValue(SplitN2(part, ":"))
RECURSIVE inlineDeclarations(_)
inlineDeclarations(parts) ==
    IF parts = <<>> THEN <<>>
    ELSE inlinePart(TrimSpace(Head(parts))) \o inlineDeclarations(Tail(parts))

ParseInlineStyle(attr) ==
    plainDeclarations(Cascade(DefaultStyle), inlineDeclarations(Split(attr, ";")), 1).style

inlineDeclarationWithContext(acc, decl, pass, parentFS, vw, vh) ==
    IF (pass = 1) # (decl.Property = "font-size") THEN acc
    ELSE IF decl.Property \in acc.importantProps /\ ~decl.Important THEN acc
    ELSE [acc EXCEPT
            !.style = IF pass = 1
                      THEN SetIfPositive(acc.style, "FontSize",
                               ParseSizeWithContext(decl.Value, parentFS, vw, vh))
                      ELSE applyDeclarationWithContext(acc.style, decl.Property, decl.Value,
                                                       acc.style.FontSize, vw, vh),
            !.importantProps = IF decl.Important THEN @ \cup {decl.Property} ELSE @]

RECURSIVE inlinePass(_, _, _, _, _, _, _)
inlinePass(acc, decls, i, pass, parentFS, vw, vh) ==
    IF i > Len(decls) THEN acc
    ELSE inlinePass(inlineDeclarationWithContext(acc, decls[i], pass, parentFS, vw, vh),
                    decls, i + 1, pass, parentFS, vw, vh)

inlineTwoPasses(decls, parentFS, vw, vh) ==
    inlinePass(inheritFontSize(inlinePass(Cascade(DefaultStyle), decls, 1, 1, parentFS, vw, vh),
                               parentFS),
               decls, 1, 2, parentFS, vw, vh).style

ParseInlineStyleWithContext(attr, parentFS, vw, vh) ==
    inlineTwoPasses(inlineDeclarations(Split(attr, ";")), parentFS, vw, vh)

(***************************************************************************)
(* Operations of the css package                                           *)
(***************************************************************************)
\* sheet := Parse(css)
CallParse ==
    /\ sheet' = Parse(css)
    /\ op' = "Parse"
    /\ UNCHANGED <<css, styleAttr, node, ctx, parentFontSize, style>>
    /\ UNCHANGED tableVars
    /\ UNCHANGED layoutVars
    /\ UNCHANGED listVars
    /\ UNCHANGED matchVars
    /\ UNCHANGED wrapVars

\* style := ApplyStylesheetWithContext(sheet, node, parentFontSize, vw, vh, ctx)
CallApplyStylesheetWithContext ==
    /\ style' = ApplyStylesheetWithContext(sheet, node, parentFontSize,
                                           DefaultViewportWidth, DefaultViewportHeight, ctx)
    /\ op' = "ApplyStylesheetWithContext"
    /\ UNCHANGED <<css, sheet, styleAttr, node, ctx, parentFontSize>>
    /\ UNCHANGED tableVars
    /\ UNCHANGED layoutVars
    /\ UNCHANGED listVars
    /\ UNCHANGED matchVars
    /\ UNCHANGED wrapVars

\* style := ApplyStylesheet(sheet, tag, id, classes)
CallApplyStylesheet ==
    /\ style' = ApplyStylesheet(sheet, node.TagName, node.Attributes.id,
                                Fields(node.Attributes.class))
    /\ op' = "ApplyStylesheet"
    /\ UNCHANGED <<css, sheet, styleAttr, node, ctx, parentFontSize>>
    /\ UNCHANGED tableVars
    /\ UNCHANGED layoutVars
    /\ UNCHANGED listVars
    /\ UNCHANGED matchVars
    /\ UNCHANGED wrapVars

\* style := ParseInlineStyle(styleAttr)
CallParseInlineStyle ==
    /\ style' = ParseInlineStyle(styleAttr)
    /\ op' = "ParseInlineStyle"
    /\ UNCHANGED <<css, sheet, styleAttr, node, ctx, parentFontSize>>
    /\ UNCHANGED tableVars
    /\ UNCHANGED layoutVars
    /\ UNCHANGED listVars
    /\ UNCHANGED matchVars
    /\ UNCHANGED wrapVars

\* style := ParseInlineStyleWithContext(styleAttr, parentFontSize, vw, vh)
CallParseInlineStyleWithContext ==
    /\ style' = ParseInlineStyleWithContext(styleAttr, parentFontSize,
                                            DefaultViewportWidth, DefaultViewportHeight)
    /\ op' = "ParseInlineStyleWithContext"
    /\ UNCHANGED <<css, sheet, styleAttr, node, ctx, parentFontSize>>
    /\ UNCHANGED tableVars
    /\ UNCHANGED layoutVars
    /\ UNCHANGED listVars
    /\ UNCHANGED matchVars
    /\ UNCHANGED wrapVars

(***************************************************************************)
(* Inputs                                                                  *)
(***************************************************************************)
\* No table is being laid out.
NoTable == table = <<>> /\ grid = <<>>
\* No box tree is being laid out.
NoLayout == boxTree = <<>> /\ pageWidth = 0 /\ layouts = 0
\* No selector is being matched on its own.
NoMatch == selector = EmptySelector /\ matched = FALSE
NoWrap == wrapArgs = <<>> /\ wrapLines = <<>>
\* No token list is in use.
NoList == classAttr = "" /\ prev = "" /\ token = "" /\ result = FALSE /\ calls = 0

\* <div><a id="i" class="c" href="h"></a></div>, and relatives
DivNode == Element("div", "", "", "", <<>>)
LinkNode == Element("a", "i", "c", "h", <<DivNode>>)
AnchorNoHref == Element("a", "", "", "", <<DivNode>>)
ParaNode == Element("p", "", "c", "", <<DivNode>>)

VisitedContext == MatchContext(<<{"h"}>>, <<>>)

declText(d) == d.Property \o ": " \o d.Value \o (IF d.Important THEN " !important" ELSE "")

\* the declarations as the text of a style attribute
RECURSIVE Render(_)
Render(ds) ==
    IF ds = <<>> THEN ""
    ELSE IF Len(ds) = 1 THEN declText(ds[1])
    ELSE declText(ds[1]) \o "; " \o Render(Tail(ds))

(***************************************************************************)
(* SpecParse: CSS text is parsed and the parsed sheet is resolved.         *)
(***************************************************************************)
CssAThenLink == "a { color: red; } a:link { color: blue; }"
CssLinkThenA == "a:link { color: blue; } a { color: red; }"
CssLinkTwice == "a:link { color: blue; } a:link { color: green; }"

ParseInputs ==
    {CssAThenLink, CssLinkThenA, CssLinkTwice,
     "a { color: red; }", ".c { color: green } a { color: blue }",
     "div a, p { color: red; text-align: center }", "#i{color:blue!important}a{color:red}"}

InitParse ==
    /\ op = "init"
    /\ css \in ParseInputs
    /\ sheet = Stylesheet(<<>>)
    /\ styleAttr = ""
    /\ node \in {LinkNode, AnchorNoHref, ParaNode}
    /\ ctx \in {EmptyContext, VisitedContext}
    /\ parentFontSize = DefaultFontSize
    /\ style = DefaultStyle
    /\ NoTable
    /\ NoLayout
    /\ NoList
    /\ NoMatch
    /\ NoWrap

NextParse == CallParse \/ CallApplyStylesheetWithContext

SpecParse == InitParse /\ [][NextParse]_vars

expectedLinkColor(text) == IF text = CssLinkTwice THEN Green ELSE Blue

\* C1: for an <a> element with a non-empty href and an empty match context,
\* resolving the sheet Parse produces from "a {red} a:link {blue}" gives blue,
\* the same two rules in the opposite order give blue as well, and
\* "a:link {blue} a:link {green}" gives green.
EndToEndSpecificity ==
    (/\ op = "ApplyStylesheetWithContext"
     /\ css \in {CssAThenLink, CssLinkThenA, CssLinkTwice}
     /\ sheet = Parse(css)
     /\ node = LinkNode
     /\ ctx = EmptyContext)
    => style.Color = expectedLinkColor(css)

(***************************************************************************)
(* SpecCascade: sheets of up to MaxRules rules, each with one selector     *)
(* list and two declarations whose values tell the rule's position; the    *)
(* style attribute holds the same declarations in the same order.          *)
(***************************************************************************)
MaxRules == 2

Palette == <<"red", "green", "blue", "black", "white", "purple">>
Aligns == <<"left", "center", "right", "justify", "start", "end">>

SelectorLists ==
    {<<Selector("", "", <<"c">>, "", <<>>)>>,
     <<Selector("", "i", <<>>, "", <<>>)>>,
     <<Selector("a", "", <<>>, "link", <<>>)>>,
     <<Selector("a", "", <<>>, "", <<Selector("div", "", <<>>, "", <<>>)>>)>>,
     <<Selector("p", "", <<>>, "", <<>>), Selector("a", "", <<>>, "", <<>>),
       Selector("a", "", <<"c">>, "", <<>>)>>}

\* the element being styled and its match context
Subjects ==
    {<<LinkNode, EmptyContext>>, <<LinkNode, VisitedContext>>}

RuleKinds == [selectors : SelectorLists, important : BOOLEAN]

CascadeRule(kind, i) ==
    Rule(kind.selectors, <<Declaration("color", Palette[i], kind.important),
                           Declaration("text-align", Aligns[i], FALSE)>>)
CascadeSheet(kinds) == Stylesheet([i \in 1..Len(kinds) |-> CascadeRule(kinds[i], i)])

\* every declaration of the sheet, in document order
RECURSIVE allDeclarations(_, _)
allDeclarations(rules, i) ==
    IF i > Len(rules) THEN <<>>
    ELSE rules[i].Declarations \o allDeclarations(rules, i + 1)

InitCascade ==
    /\ op = "init"
    /\ css = ""
    /\ \E n \in 1..MaxRules : \E kinds \in [1..n -> RuleKinds] : sheet = CascadeSheet(kinds)
    /\ styleAttr = Render(allDeclarations(sheet.Rules, 1))
    /\ \E subject \in Subjects : node = subject[1] /\ ctx = subject[2]
    /\ parentFontSize = DefaultFontSize
    /\ style = DefaultStyle
    /\ NoTable
    /\ NoLayout
    /\ NoList
    /\ NoMatch
    /\ NoWrap

NextResolve ==
    \/ CallApplyStylesheet
    \/ CallApplyStylesheetWithContext
    \/ CallParseInlineStyle
    \/ CallParseInlineStyleWithContext

SpecCascade == InitCascade /\ [][NextResolve]_vars

\* The declarations that apply in the last operation, in document order, each
\* with the index of its rule and, for the specificity cascade, the highest
\* specificity among the selectors of its rule that match the node.
matchingSpecificities(rule) ==
    {selectorSpecificity(rule.Selectors[k]) :
        k \in {j \in 1..Len(rule.Selectors) : MatchSelectorNode(rule.Selectors[j], node, ctx)}}
highestOf(S) == CHOOSE s \in S : \A t \in S : t = s \/ LessThan(t, s)

tagged(decls, i, sp) ==
    [j \in 1..Len(decls) |-> [decl |-> decls[j], rule |-> i, specificity |-> sp]]
taggedIfMatching(rule, i, S) ==
    IF S = {} THEN <<>> ELSE tagged(rule.Declarations, i, highestOf(S))
RECURSIVE nodeDeclarations(_, _)
nodeDeclarations(rules, i) ==
    IF i > Len(rules) THEN <<>>
    ELSE taggedIfMatching(rules[i], i, matchingSpecificities(rules[i]))
         \o nodeDeclarations(rules, i + 1)

RECURSIVE plainMatchDeclarations(_, _)
plainMatchDeclarations(rules, i) ==
    IF i > Len(rules) THEN <<>>
    ELSE (IF ruleMatches(rules[i], node.TagName, node.Attributes.id,
                         Fields(node.Attributes.class))
          THEN tagged(rules[i].Declarations, i, ZeroSpecificity) ELSE <<>>)
         \o plainMatchDeclarations(rules, i + 1)

applicable ==
    CASE op = "ApplyStylesheetWithContext" -> nodeDeclarations(sheet.Rules, 1)
      [] op = "ApplyStylesheet" -> plainMatchDeclarations(sheet.Rules, 1)
      [] op \in {"ParseInlineStyle", "ParseInlineStyleWithContext"} ->
            tagged(inlineDeclarations(Split(styleAttr, ";")), 0, ZeroSpecificity)
      [] OTHER -> <<>>

\* positions in ds of the declarations of property p
declaring(ds, p) == {k \in 1..Len(ds) : ds[k].decl.Property = p}
importantAmong(ds, K) == {k \in K : ds[k].decl.Important}

\* the resolved value of property p, read back from the style
resolvedIs(st, p, value) ==
    CASE p = "color" -> st.Color = ParseColor(value)
      [] p = "text-align" -> st.TextAlign = value

\* k beats every other position of K: higher specificity, or equal and later
winsOver(ds, k, K) ==
    \A m \in K \ {k} :
        \/ LessThan(ds[m].specificity, ds[k].specificity)
        \/ ds[m].specificity = ds[k].specificity /\ m < k

winnerResolved(ds, K, p) ==
    (K # {} /\ importantAmong(ds, K) = {})
    => \E k \in K : winsOver(ds, k, K) /\ resolvedIs(style, p, ds[k].decl.Value)

\* C2: in ApplyStylesheetWithContext, when the matching rules declare a
\* property without !important, its resolved value is the one of the rule with
\* the greatest (specificity, document position), a rule's specificity being
\* the highest among its selectors that match the node.
NonImportantWinner ==
    op = "ApplyStylesheetWithContext"
    => \A p \in {"color", "text-align"} : winnerResolved(applicable, declaring(applicable, p), p)

\* an earlier rule of higher specificity has beaten a later one
NonImportantWinnerReached ==
    /\ op = "ApplyStylesheetWithContext"
    /\ Len(applicable) = 4
    /\ importantAmong(applicable, declaring(applicable, "color")) = {}
    /\ LessThan(applicable[3].specificity, applicable[1].specificity)
    /\ style.Color = Red
    /\ style.TextAlign = "left"

importantResolved(ds, K, I) ==
    I # {} => \E k \in I : resolvedIs(style, "color", ds[k].decl.Value)
otherPropertyResolved(ds, I, T) ==
    (I # {} /\ T # {}) => \E k \in T : resolvedIs(style, "text-align", ds[k].decl.Value)
importanceHolds(ds, K) ==
    /\ importantResolved(ds, K, importantAmong(ds, K))
    /\ otherPropertyResolved(ds, importantAmong(ds, K), declaring(ds, "text-align"))

importantWinner(ds, K) ==
    (Cardinality(K) = 2 /\ importantAmong(ds, K) = K)
    => \E k \in K : winsOver(ds, k, K) /\ resolvedIs(style, "color", ds[k].decl.Value)

\* C4: in ApplyStylesheetWithContext, of two matching rules that both declare a
\* property !important, the one of higher specificity wins whatever their
\* order, and the later one wins only at equal specificity.
ImportantSpecificity ==
    op = "ApplyStylesheetWithContext"
    => importantWinner(applicable, declaring(applicable, "color"))

(***************************************************************************)
(* SpecEm: a <p> element, up to MaxFontSizeDecls font-size declarations    *)
(* and one length in em standing before or after them; or one font-size    *)
(* keyword alone.  The sheet holds one rule "p { d }" per declaration and  *)
(* the style attribute the same declarations.                              *)
(***************************************************************************)
MaxFontSizeDecls == 2

\* one rule "p { d }" per declaration
SheetOf(ds) ==
    Stylesheet([i \in 1..Len(ds) |-> Rule(<<Selector("p", "", <<>>, "", <<>>)>>, <<ds[i]>>)])

FontSizeDecls ==
    {Declaration("font-size", "20px", FALSE), Declaration("font-size", "2em", FALSE),
     Declaration("font-size", "10px", TRUE)}

\* the properties the context-aware resolver handles itself
OwnEmProperties == {"letter-spacing", "word-spacing", "margin", "padding", "width", "height"}
\* the length properties it hands on to applyDeclaration
OtherEmProperties ==
    {"border-width", "min-width", "max-width", "min-height", "max-height",
     "top", "left", "right", "bottom", "border-radius"}
EmValues == {"1.5em"}

FontSizeKeywords ==
    {"larger", "smaller", "medium", "large", "x-large", "xx-large",
     "small", "x-small", "xx-small", "huge"}

ParentFontSizes == {16 * Unit, 20 * Unit}

RECURSIVE SeqsUpTo(_, _)
extendSeqs(S, shorter) ==
    {<<>>} \cup {Append(q, x) : q \in shorter, x \in S}
SeqsUpTo(S, n) == IF n = 0 THEN {<<>>} ELSE extendSeqs(S, SeqsUpTo(S, n - 1))

EmInputs ==
    {<<d>> \o fs : d \in [Property : OwnEmProperties \cup OtherEmProperties,
                         Value : EmValues, Important : {FALSE}],
                   fs \in SeqsUpTo(FontSizeDecls, MaxFontSizeDecls)}
    \cup
    {fs \o <<d>> : d \in [Property : OwnEmProperties \cup OtherEmProperties,
                         Value : EmValues, Important : {FALSE}],
                   fs \in SeqsUpTo(FontSizeDecls, MaxFontSizeDecls)}
KeywordInputs == {<<Declaration("font-size", k, FALSE)>> : k \in FontSizeKeywords}

InitDeclarations(inputs) ==
    /\ op = "init"
    /\ css = ""
    /\ \E ds \in inputs : sheet = SheetOf(ds) /\ styleAttr = Render(ds)
    /\ node = ParaNode
    /\ ctx = EmptyContext
    /\ parentFontSize \in ParentFontSizes
    /\ style = DefaultStyle
    /\ NoTable
    /\ NoLayout
    /\ NoList
    /\ NoMatch
    /\ NoWrap

InitEm == InitDeclarations(EmInputs \cup KeywordInputs)

SpecEm == InitEm /\ [][NextResolve]_vars

\* the declarations of the sheet that give a length in em to a property of P
emDeclarations(ds, P) ==
    {k \in 1..Len(ds) : ds[k].Property \in P /\ HasSuffix(ds[k].Value, "em")}
multiplierOf(d) == ParseFloat(TrimSuffix(d.Value, "em")).val

\* the style holds length x for the property
lengthIs(st, p, x) ==
    CASE p = "letter-spacing" -> st.LetterSpacing = x
      [] p = "word-spacing" -> st.WordSpacing = x
      [] p = "margin" -> st.MarginTop = x /\ st.MarginBottom = x
                         /\ st.MarginLeft = x /\ st.MarginRight = x
      [] p = "padding" -> st.PaddingTop = x /\ st.PaddingBottom = x
                          /\ st.PaddingLeft = x /\ st.PaddingRight = x
      [] p = "width" -> st.Width = x
      [] p = "height" -> st.Height = x
      [] p = "border-width" -> st.BorderTopWidth = x /\ st.BorderRightWidth = x
                               /\ st.BorderBottomWidth = x /\ st.BorderLeftWidth = x
      [] p = "min-width" -> st.MinWidth = x
      [] p = "max-width" -> st.MaxWidth = x
      [] p = "min-height" -> st.MinHeight = x
      [] p = "max-height" -> st.MaxHeight = x
      [] p = "top" -> st.Top = x
      [] p = "left" -> st.Left = x
      [] p = "right" -> st.Right = x
      [] p = "bottom" -> st.Bottom = x
      [] p = "border-radius" -> st.BorderRadius = x

\* the declarations with the one at position k moved to the other end
RECURSIVE without(_, _)
without(ds, k) ==
    IF ds = <<>> THEN <<>>
    ELSE IF k = 1 THEN Tail(ds)
    ELSE <<Head(ds)>> \o without(Tail(ds), k - 1)
moved(ds, k) == IF k = 1 THEN without(ds, 1) \o <<ds[1]>> ELSE <<ds[k]>> \o without(ds, k)

\* the last operation, run on other declarations
resolveAgain(ds) ==
    IF op = "ApplyStylesheetWithContext"
    THEN ApplyStylesheetWithContext(SheetOf(ds), node, parentFontSize,
                                    DefaultViewportWidth, DefaultViewportHeight, ctx)
    ELSE ParseInlineStyleWithContext(Render(ds), parentFontSize,
                                     DefaultViewportWidth, DefaultViewportHeight)

emOfOwnFontSize(ds, k) ==
    /\ lengthIs(style, ds[k].Property, Mul(multiplierOf(ds[k]), style.FontSize))
    /\ lengthIs(resolveAgain(moved(ds, k)), ds[k].Property,
                Mul(multiplierOf(ds[k]), style.FontSize))
emResolved(ds, P) == \A k \in emDeclarations(ds, P) : emOfOwnFontSize(ds, k)

\* C5: in ApplyStylesheetWithContext and ParseInlineStyleWithContext, a length
\* in em of letter-spacing, word-spacing, margin, padding, width or height
\* resolves to its multiplier times the final font-size of the element, and to
\* the same value when it stands at the other end of the declarations.
TwoPassEm ==
    op \in {"ApplyStylesheetWithContext", "ParseInlineStyleWithContext"}
    => emResolved(allDeclarations(sheet.Rules, 1), OwnEmProperties)

\* padding in em stands before the font-size declaration that wins
TwoPassEmReached ==
    /\ op = "ApplyStylesheetWithContext"
    /\ allDeclarations(sheet.Rules, 1) =
           <<Declaration("padding", "1.5em", FALSE), Declaration("font-size", "20px", FALSE)>>
    /\ style.FontSize = 20 * Unit
    /\ style.PaddingLeft = 30 * Unit

fontSizeOfParent(ds) ==
    ds = <<Declaration("font-size", "2em", FALSE)>> => style.FontSize = 2 * parentFontSize
emBaseHolds(ds) ==
    /\ \A k \in emDeclarations(ds, OwnEmProperties \cup OtherEmProperties) :
           lengthIs(style, ds[k].Property, Mul(multiplierOf(ds[k]), style.FontSize))
    /\ fontSizeOfParent(ds)

\* C6: in the context-aware resolvers a length in em of any length property
\* other than font-size resolves against the element's own font-size, and a
\* font-size in em against the parent font-size.
EmBase ==
    op \in {"ApplyStylesheetWithContext", "ParseInlineStyleWithContext"}
    => emBaseHolds(allDeclarations(sheet.Rules, 1))

keywordSizeIs(k, F, x) ==
    CASE k = "larger" -> x = Mul(F, 120)
      [] k = "smaller" -> x * 120 <= F * Unit /\ F * Unit < (x + 1) * 120
      [] k = "medium" -> x = 16 * Unit
      [] k = "large" -> x = 1920
      [] k = "x-large" -> x = 24 * Unit
      [] k = "xx-large" -> x = 32 * Unit
      [] k = "small" -> x = 1424
      [] k = "x-small" -> x = 12 * Unit
      [] k = "xx-small" -> x = 960
      [] OTHER -> x = DefaultStyle.FontSize
keywordHolds(ds) ==
    ds \in KeywordInputs => keywordSizeIs(ds[1].Value, parentFontSize, style.FontSize)

\* C7: "larger" is 1.2 times the parent font-size and "smaller" the parent
\* font-size over 1.2; the absolute keywords are fixed sizes; an unknown
\* keyword leaves the font-size as it was.  In both context-aware resolvers.
FontSizeKeyword ==
    op \in {"ApplyStylesheetWithContext", "ParseInlineStyleWithContext"}
    => keywordHolds(allDeclarations(sheet.Rules, 1))

(***************************************************************************)
(* SpecFont: up to MaxFontDecls declarations of the font properties and    *)
(* of the font shorthand.                                                  *)
(***************************************************************************)
MaxFontDecls == 4

FontDecls ==
    {Declaration("font-style", "italic", FALSE), Declaration("font-weight", "bold", FALSE),
     Declaration("line-height", "2", FALSE), Declaration("font", "16px Arial", FALSE)}
FontShorthandInput == "font-style: italic; font-weight: bold; line-height: 2; font: 16px Arial"

InitFont == InitDeclarations(SeqsUpTo(FontDecls, MaxFontDecls) \ {<<>>})

SpecFont == InitFont /\ [][NextResolve]_vars

\* C8: "font: 16px Arial" after "font-style: italic; font-weight: bold;
\* line-height: 2" gives FontSize 16, FontFamily [Arial], Italic false, Bold
\* false, FontVariant "normal" and the normal line height 1.2 x 16.
FontShorthandResets ==
    (op \in {"ParseInlineStyle", "ParseInlineStyleWithContext"}
     /\ styleAttr = FontShorthandInput)
    => /\ style.FontSize = 16 * Unit
       /\ style.FontFamily = <<"Arial">>
       /\ ~style.Italic
       /\ ~style.Bold
       /\ style.FontVariant = "normal"
       /\ style.LineHeight = Mul(16 * Unit, 120)

(***************************************************************************)
(* Table layout (computeTableLayout)                                       *)
(*                                                                         *)
(* A table is [x, y, containerWidth, width, cellspacing, rows]: the start  *)
(* position, the container width, Style.Width (0 when auto), the           *)
(* cellspacing attribute and the rows, each the sequence of its cells.     *)
(* A cell is [colspan, rowspan, width, text, content, valign, percent]:    *)
(* its two attributes as integers (0 when absent or not a number),         *)
(* Style.Width, the width measureTextWidth gives, the height               *)
(* computeCellContent returns, Style.VerticalAlign and Style.WidthPercent. *)
(* The inputs have rows directly under the table, no caption, no <col>,    *)
(* no cellpadding, border or row height attribute.  Rows are numbered from *)
(* 1 and columns from 0.  A laid-out cell holds, besides its Rect, the Y   *)
(* of the top of its content subtree (ContentY).                           *)
(***************************************************************************)
MinOf(a, b) == IF a < b THEN a ELSE b
MaxOf(a, b) == IF a > b THEN a ELSE b

\* heights[from] + ... + heights[to]
RECURSIVE SumFrom(_, _, _)
SumFrom(s, from, to) == IF from > to THEN 0 ELSE s[from] + SumFrom(s, from + 1, to)

getCellColSpan(cell) == IF cell.colspan > 0 THEN cell.colspan ELSE 1
getCellRowSpan(cell) == IF cell.rowspan > 0 THEN cell.rowspan ELSE 1

DefaultCellPadding == 8 * Unit
MinRowHeight == 24 * Unit
MinColWidth == 24 * Unit

\* a walk that does not skip the reserved slots
skipNothing(occupied, r, c) == c

\* "for occupied[rowIdx][colIdx] { colIdx++ }"
RECURSIVE skipOccupied(_, _, _)
skipOccupied(occupied, r, c) ==
    IF <<r, c>> \in occupied THEN skipOccupied(occupied, r, c + 1) ELSE c

\* the slots a cell at column c of row r reserves in the rows below, of n rows
reserved(cs, rs, r, n, c) ==
    {<<rr, cc>> : rr \in (r + 1)..MinOf(r + rs - 1, n), cc \in c..(c + cs - 1)}

\* one cell of row r, placed at column c
placeCell(acc, cell, r, n, c) ==
    [colIdx |-> c + getCellColSpan(cell),
     occupied |-> acc.occupied \cup reserved(getCellColSpan(cell), getCellRowSpan(cell), r, n, c),
     cols |-> Append(acc.cols, c)]

RECURSIVE placeCells(_, _, _, _, _)
placeCells(acc, cells, i, r, n) ==
    IF i > Len(cells) THEN acc
    ELSE placeCells(placeCell(acc, cells[i], r, n, skipOccupied(acc.occupied, r, acc.colIdx)),
                    cells, i + 1, r, n)

rowPlaced(g, p) ==
    [occupied |-> p.occupied, cols |-> Append(g.cols, p.cols), ends |-> Append(g.ends, p.colIdx)]

RECURSIVE placeRows(_, _, _)
placeRows(g, rows, r) ==
    IF r > Len(rows) THEN g
    ELSE placeRows(rowPlaced(g, placeCells([colIdx |-> 0, occupied |-> g.occupied, cols |-> <<>>],
                                           rows[r], 1, r, Len(rows))),
                   rows, r + 1)

\* the grid walk: cols[r][i] is the column of cell i of row r, ends[r] the
\* column index the row reached
gridOf(rows) == placeRows([occupied |-> {}, cols |-> <<>>, ends |-> <<>>], rows, 1)

numColsOf(ends) == SetMax({0} \cup {ends[r] : r \in 1..Len(ends)})

\* every cell of the table, as <<row, index>>
cellIndexes(rows) == UNION {{<<r, i>> : i \in 1..Len(rows[r])} : r \in 1..Len(rows)}

\* the cells without colspan that stand in column c
columnCells(rows, cols, c) ==
    {k \in cellIndexes(rows) : cols[k[1]][k[2]] = c /\ getCellColSpan(rows[k[1]][k[2]]) = 1}

\* "w := cell.Style.Width; if w == 0 && cell.Style.WidthPercent > 0 { ... }"
cellStyleWidth(cell, containerWidth) ==
    IF cell.width = 0 /\ cell.percent > 0 THEN (containerWidth * cell.percent) \div 100
    ELSE cell.width
explicitColWidth(rows, K, containerWidth) ==
    SetMax({0} \cup {cellStyleWidth(rows[k[1]][k[2]], containerWidth) : k \in K})
naturalColWidth(rows, K) ==
    SetMax({0} \cup {rows[k[1]][k[2]].text + 2 * DefaultCellPadding : k \in K})

\* shrink-to-fit: an auto column takes its natural width, at least 24
shrinkWidth(explicit, natural) ==
    IF explicit = 0 THEN MaxOf(natural, MinColWidth) ELSE explicit

\* explicit table width: the auto columns share what the others leave
autoWidth(tableWidth, explicit, numCols, cellSpacing, autoCols) ==
    MaxOf(0, tableWidth - SumFrom(explicit, 1, numCols) - (numCols + 1) * cellSpacing)
        \div Cardinality(autoCols)
sharedWidths(explicit, auto) ==
    [c \in 1..Len(explicit) |-> IF explicit[c] = 0 THEN auto ELSE explicit[c]]
explicitWidths(tableWidth, explicit, numCols, cellSpacing, autoCols) ==
    IF autoCols = {} THEN explicit
    ELSE sharedWidths(explicit, autoWidth(tableWidth, explicit, numCols, cellSpacing, autoCols))

\* colWidths[c + 1] is the width of column c
colWidthsOf(t, cols, numCols, explicit) ==
    IF t.width > 0
    THEN explicitWidths(t.width, explicit, numCols, t.cellspacing,
                        {c \in 1..numCols : explicit[c] = 0})
    ELSE [c \in 1..numCols |->
             shrinkWidth(explicit[c], naturalColWidth(t.rows, columnCells(t.rows, cols, c - 1)))]

tableWidthOf(t, colWidths, numCols) ==
    IF t.width > 0 THEN t.width
    ELSE SumFrom(colWidths, 1, numCols) + (numCols + 1) * t.cellspacing

\* colXOffsets[c]
colXOffset(colWidths, cellSpacing, c) == cellSpacing + SumFrom(colWidths, 1, c) + c * cellSpacing

cellWidthOf(colWidths, numCols, cellSpacing, c, cs) ==
    SumFrom(colWidths, c + 1, MinOf(c + cs, numCols))
    + (IF cs > 1 THEN (cs - 1) * cellSpacing ELSE 0)

\* the height of a row: the tallest of its cells without rowspan, at least 24
rowHeightOf(cells) ==
    SetMax({MinRowHeight} \cup
           {cells[i].content + 2 * DefaultCellPadding :
               i \in {j \in 1..Len(cells) : getCellRowSpan(cells[j]) = 1}})

\* the Y of each row, given the row heights
rowYs(heights, y0, cellSpacing) ==
    [r \in 1..Len(heights) |->
        y0 + cellSpacing + SumFrom(heights, 1, r - 1) + (r - 1) * cellSpacing]

\* the cells with rowspan > 1 in document order, as <<row, index>>
RECURSIVE rowspanCellsFrom(_, _, _)
rowspanCellsFrom(rows, r, i) ==
    IF r > Len(rows) THEN <<>>
    ELSE IF i > Len(rows[r]) THEN rowspanCellsFrom(rows, r + 1, 1)
    ELSE (IF getCellRowSpan(rows[r][i]) > 1 THEN <<<<r, i>>>> ELSE <<>>)
         \o rowspanCellsFrom(rows, r, i + 1)

\* the last row a cell of row r with rowspan rs spans, of n rows
spanEnd(r, rs, n) == MinOf(r + rs - 1, n)

\* a rowspan cell taller than its rows gives the extra to the last of them
growLastRow(heights, e, cellHeight, totalHeight) ==
    IF cellHeight > totalHeight
    THEN [heights EXCEPT ![e] = @ + (cellHeight - totalHeight)]
    ELSE heights
\* the extra given to the first spanned row instead
resolveRowspanFirst(heights, cell, r, e) ==
    growLastRow(heights, r, cell.content + 2 * DefaultCellPadding, SumFrom(heights, r, e))
resolveRowspan(heights, cell, r, e) ==
    growLastRow(heights, e, cell.content + 2 * DefaultCellPadding, SumFrom(heights, r, e))

RECURSIVE resolveRowspans(_, _, _, _)
resolveRowspans(heights, rows, spans, k) ==
    IF k > Len(spans) THEN heights
    ELSE resolveRowspans(
             resolveRowspan(heights, rows[spans[k][1]][spans[k][2]], spans[k][1],
                            spanEnd(spans[k][1], getCellRowSpan(rows[spans[k][1]][spans[k][2]]),
                                    Len(rows))),
             rows, spans, k + 1)

getCellVerticalAlign(cell) == IF cell.valign # "" THEN cell.valign ELSE "top"

\* dy of a cell of the given height whose content is contentHeight high
alignShift(va, innerHeight, contentHeight) ==
    CASE va = "middle" -> (innerHeight - contentHeight) \div 2
      [] va = "bottom" -> innerHeight - contentHeight
      [] OTHER -> 0
\* how far the row pass shifts the content of a cell without rowspan
verticalShift(cell, height) ==
    IF getCellRowSpan(cell) # 1 \/ getCellVerticalAlign(cell) \in {"top", "baseline", ""} THEN 0
    ELSE MaxOf(0, alignShift(getCellVerticalAlign(cell), height - 2 * DefaultCellPadding,
                             cell.content))

cellRect(t, cell, c, colWidths, numCols, rowY, height) ==
    [col |-> c,
     ContentY |-> rowY + DefaultCellPadding + verticalShift(cell, height),
     X |-> t.x + colXOffset(colWidths, t.cellspacing, c),
     Y |-> rowY,
     Width |-> cellWidthOf(colWidths, numCols, t.cellspacing, c, getCellColSpan(cell)),
     Height |-> height]

\* the row pass: a cell without rowspan takes the height of its row, a
\* rowspan cell keeps its content height plus padding for now
firstCellHeight(cell, rowHeight) ==
    IF getCellRowSpan(cell) = 1 THEN rowHeight ELSE cell.content + 2 * DefaultCellPadding

\* "yOffset - startY" after the rows
heightBelow(t, heights, ys) == ys[Len(ys)] + heights[Len(ys)] + t.cellspacing - t.y

rowPass(t, cols, numCols, colWidths, heights, ys) ==
    [numCols |-> numCols,
     X |-> t.x, Y |-> t.y,
     Width |-> tableWidthOf(t, colWidths, numCols),
     Height |-> heightBelow(t, heights, ys),
     rows |-> [r \in 1..Len(t.rows) |->
                  [X |-> t.x, Y |-> ys[r], Width |-> tableWidthOf(t, colWidths, numCols),
                   Height |-> heights[r]]],
     cells |-> [r \in 1..Len(t.rows) |->
                  [i \in 1..Len(t.rows[r]) |->
                      cellRect(t, t.rows[r][i], cols[r][i], colWidths, numCols, ys[r],
                               firstCellHeight(t.rows[r][i], heights[r]))]]]

\* "if needsReposition": rows and cells move to the grown row heights
repositionCell(rect, cell, rowY, rowHeight) ==
    [rect EXCEPT !.Y = rowY,
                 !.Height = IF getCellRowSpan(cell) = 1 THEN rowHeight ELSE @,
                 !.ContentY = rowY + DefaultCellPadding]
reposition(g, t, heights, ys) ==
    [g EXCEPT
        !.Height = heightBelow(t, heights, ys),
        !.rows = [r \in 1..Len(t.rows) |-> [g.rows[r] EXCEPT !.Y = ys[r], !.Height = heights[r]]],
        !.cells = [r \in 1..Len(t.rows) |->
                      [i \in 1..Len(t.rows[r]) |->
                          repositionCell(g.cells[r][i], t.rows[r][i], ys[r], heights[r])]]]

\* a rowspan cell that takes the height of its first row only
firstRowHeight(heights, r, e) == heights[r]

\* the final height of a rowspan cell of row r that spans the rows up to e
spannedHeight(heights, r, e) == SumFrom(heights, r, e)

finalRowspanCell(rect, cell, rowRects, heights, r, n) ==
    IF getCellRowSpan(cell) > 1
    THEN [rect EXCEPT !.Height = spannedHeight(heights, r, spanEnd(r, getCellRowSpan(cell), n)),
                      !.Y = rowRects[r].Y]
    ELSE rect
finalRowspans(g, t, heights) ==
    [g EXCEPT
        !.cells = [r \in 1..Len(t.rows) |->
                      [i \in 1..Len(t.rows[r]) |->
                          finalRowspanCell(g.cells[r][i], t.rows[r][i], g.rows, heights,
                                           r, Len(t.rows))]]]

\* first are the row heights of the row pass, final those the rowspan cells
\* left; needsReposition is set exactly when a row has grown
resolved(g, t, first, final) ==
    finalRowspans(IF final # first
                  THEN reposition(g, t, final, rowYs(final, t.y, t.cellspacing))
                  ELSE g,
                  t, final)

withHeights(t, cols, numCols, colWidths, first) ==
    resolved(rowPass(t, cols, numCols, colWidths, first, rowYs(first, t.y, t.cellspacing)),
             t, first,
             resolveRowspans(first, t.rows, rowspanCellsFrom(t.rows, 1, 1), 1))

withWidths(t, cols, numCols, colWidths) ==
    withHeights(t, cols, numCols, colWidths,
                [r \in 1..Len(t.rows) |-> rowHeightOf(t.rows[r])])

\* "if numCols == 0 { table.Rect.Height = 0; return }"
emptyTable(t) ==
    [numCols |-> 0, X |-> t.x, Y |-> t.y,
     Width |-> IF t.width > 0 THEN t.width ELSE t.containerWidth, Height |-> 0,
     rows |-> [r \in 1..Len(t.rows) |-> [X |-> 0, Y |-> 0, Width |-> 0, Height |-> 0]],
     cells |-> [r \in 1..Len(t.rows) |-> <<>>]]

withGrid(t, cols, numCols) ==
    IF numCols = 0 THEN emptyTable(t)
    ELSE withWidths(t, cols, numCols,
             colWidthsOf(t, cols, numCols,
                 [c \in 1..numCols |->
                     explicitColWidth(t.rows, columnCells(t.rows, cols, c - 1),
                                      t.containerWidth)]))

placedTable(t, g) == withGrid(t, g.cols, numColsOf(g.ends))

computeTableLayout(t) == placedTable(t, gridOf(t.rows))

\* computeTableLayout(table, containerWidth, startX, startY)
CallComputeTableLayout ==
    /\ grid' = computeTableLayout(table)
    /\ op' = "computeTableLayout"
    /\ UNCHANGED <<css, sheet, styleAttr, node, ctx, parentFontSize, style, table>>
    /\ UNCHANGED layoutVars
    /\ UNCHANGED listVars
    /\ UNCHANGED matchVars
    /\ UNCHANGED wrapVars

(***************************************************************************)
(* SpecTable: tables of up to MaxRows rows taken from RowPool, with and    *)
(* without an explicit width and cellspacing.                              *)
(***************************************************************************)
MaxRows == 2

Cell(colspan, rowspan, width, text, content) ==
    [colspan |-> colspan, rowspan |-> rowspan, width |-> width, text |-> text,
     content |-> content, valign |-> "", percent |-> 0]
\* one line of text, no attributes
PlainCell == Cell(0, 0, 0, 20 * Unit, 24 * Unit)
\* the rows [A(rowspan 2), B, C] and [D, E]
RowABC == <<Cell(0, 2, 0, 20 * Unit, 24 * Unit), PlainCell, PlainCell>>
RowDE == <<PlainCell, PlainCell>>

RowPool ==
    {RowABC, RowDE, <<>>,
     <<Cell(0, 3, 0, 20 * Unit, 72 * Unit), PlainCell>>,
     <<PlainCell, Cell(2, 2, 0, 50 * Unit, 72 * Unit)>>,
     <<Cell(0, 0, 100 * Unit, 20 * Unit, 72 * Unit)>>,
     <<Cell(2, 0, 0, 20 * Unit, 24 * Unit), Cell(0, 2, 0, 20 * Unit, 24 * Unit)>>,
     <<PlainCell, Cell(1, 2, 0, 20 * Unit, 120 * Unit), PlainCell>>}

Table(width, cellspacing, rows) ==
    [x |-> 8 * Unit, y |-> 8 * Unit, containerWidth |-> 300 * Unit,
     width |-> width, cellspacing |-> cellspacing, rows |-> rows]

TableInputs ==
    {Table(wc[1], wc[2], rows) :
        wc \in {<<0, 0>>, <<300 * Unit, 2 * Unit>>},
        rows \in SeqsUpTo(RowPool, MaxRows) \ {<<>>}}

InitTable ==
    /\ op = "init"
    /\ css = ""
    /\ sheet = Stylesheet(<<>>)
    /\ styleAttr = ""
    /\ node = DivNode
    /\ ctx = EmptyContext
    /\ parentFontSize = DefaultFontSize
    /\ style = DefaultStyle
    /\ table \in TableInputs
    /\ NoLayout
    /\ NoList
    /\ NoMatch
    /\ NoWrap
    /\ grid = <<>>

NextTable == CallComputeTableLayout

SpecTable == InitTable /\ [][NextTable]_vars

\* the slots of row r that the rowspan cells of the rows above reserve,
\* read from the columns the layout gave them
reservedIn(rows, cols, r) ==
    {c \in 0..grid.numCols :
        \E k \in cellIndexes(rows) :
            /\ getCellRowSpan(rows[k[1]][k[2]]) > 1
            /\ k[1] < r
            /\ r <= MinOf(k[1] + getCellRowSpan(rows[k[1]][k[2]]) - 1, Len(rows))
            /\ cols[k[1]][k[2]] <= c
            /\ c < cols[k[1]][k[2]] + getCellColSpan(rows[k[1]][k[2]])}
\* where the previous cell of the row ends
previousEnd(row, rowCols, i) ==
    IF i = 1 THEN 0 ELSE rowCols[i - 1] + getCellColSpan(row[i - 1])
\* c is the lowest column at or after from that is not in R
lowestFree(c, from, R) == c >= from /\ c \notin R /\ \A b \in from..(c - 1) : b \in R
rowEnd(row, rowCols) ==
    IF row = <<>> THEN 0 ELSE rowCols[Len(row)] + getCellColSpan(row[Len(row)])
columnsOf(cells) == [r \in 1..Len(cells) |-> [i \in 1..Len(cells[r]) |-> cells[r][i].col]]

placementHolds(rows, cols) ==
    /\ \A k \in cellIndexes(rows) :
           lowestFree(cols[k[1]][k[2]], previousEnd(rows[k[1]], cols[k[1]], k[2]),
                      reservedIn(rows, cols, k[1]))
    /\ grid.numCols = SetMax({0} \cup {rowEnd(rows[r], cols[r]) : r \in 1..Len(rows)})
    /\ rows = <<RowABC, RowDE>> => grid.numCols = 3 /\ cols[2] = <<1, 2>>

\* C9: a cell with rowspan k > 1 at columns [c, c + colspan) of row r reserves
\* them in rows r+1 .. min(r+k-1, last row); each cell stands at the lowest
\* column at or after the end of the previous cell of its row that is not
\* reserved; the column count is the greatest column index a row reaches.
\* Rows [A(rowspan 2), B, C], [D, E]: 3 columns, D in column 1, E in column 2.
GridPlacement ==
    (op = "computeTableLayout" /\ grid.numCols > 0)
    => placementHolds(table.rows, columnsOf(grid.cells))

\* the rows of the example, laid out
GridPlacementReached ==
    /\ op = "computeTableLayout"
    /\ table.rows = <<RowABC, RowDE>>
    /\ grid.numCols = 3
    /\ grid.cells[2][1].col = 1
    /\ grid.cells[2][2].col = 2

spanGeometry(rect, rowRects, r, e) ==
    /\ rect.Height = SumFrom([q \in 1..Len(rowRects) |-> rowRects[q].Height], r, e)
    /\ rect.Y = rowRects[r].Y

\* C10: after computeTableLayout a cell with rowspan k starting in row r has
\* the summed final height of rows r .. min(r+k, number of rows) - 1 and the
\* Y of row r; a cell with rowspan 1 has the height of its row.
RowspanGeometry ==
    (op = "computeTableLayout" /\ grid.numCols > 0)
    => \A k \in cellIndexes(table.rows) :
           spanGeometry(grid.cells[k[1]][k[2]], grid.rows, k[1],
                        MinOf(k[1] + getCellRowSpan(table.rows[k[1]][k[2]]) - 1,
                              Len(table.rows)))

\* a cell with rowspan 3 in the first of two rows, taller than both: its
\* rowspan is clamped and the second row has grown
RowspanGeometryReached ==
    /\ op = "computeTableLayout"
    /\ grid.numCols > 0
    /\ Len(table.rows) = 2
    /\ Len(table.rows[1]) > 0
    /\ table.rows[1][1].rowspan = 3
    /\ grid.rows[2].Height > MinRowHeight + 2 * DefaultCellPadding
    /\ grid.cells[1][1].Height = grid.rows[1].Height + grid.rows[2].Height
    /\ grid.cells[1][1].Y = grid.rows[1].Y

\* the height the row pass gives row r: its tallest cell without rowspan, at
\* least the minimum
naturalHeight(rows, r) ==
    SetMax({MinRowHeight} \cup
           {rows[r][i].content + 2 * DefaultCellPadding :
               i \in {j \in 1..Len(rows[r]) : rows[r][j].rowspan <= 1}})

\* the cells with rowspan > 1 and the last row each spans
spanning(rows) == {k \in cellIndexes(rows) : rows[k[1]][k[2]].rowspan > 1}
lastSpanned(rows, k) == MinOf(k[1] + rows[k[1]][k[2]].rowspan - 1, Len(rows))

\* what the spanned rows of cell k lack to hold it, by the row pass
shortfall(rows, k) ==
    MaxOf(0, rows[k[1]][k[2]].content + 2 * DefaultCellPadding
             - SumFrom([r \in 1..Len(rows) |-> naturalHeight(rows, r)], k[1], lastSpanned(rows, k)))

overflowHolds(rows, g, y0, cellSpacing) ==
    /\ \A r \in 1..Len(rows) :
          /\ g.rows[r].Height >= naturalHeight(rows, r)
          /\ (\A k \in spanning(rows) : lastSpanned(rows, k) # r)
                => g.rows[r].Height = naturalHeight(rows, r)
          /\ g.rows[r].Y = IF r = 1 THEN y0 + cellSpacing
                           ELSE g.rows[r - 1].Y + g.rows[r - 1].Height + cellSpacing
    /\ \A k \in spanning(rows) :
          /\ g.cells[k[1]][k[2]].Height >= rows[k[1]][k[2]].content + 2 * DefaultCellPadding
          /\ spanning(rows) = {k}
                => g.rows[lastSpanned(rows, k)].Height
                   = naturalHeight(rows, lastSpanned(rows, k)) + shortfall(rows, k)
    /\ \A k \in cellIndexes(rows) : g.cells[k[1]][k[2]].Y = g.rows[k[1]].Y

\* C23: when a rowspan cell with its padding is taller than the rows it
\* spans, the difference goes to the last spanned row and to no other row;
\* each row's Y is the previous row's Y plus its height plus the cell
\* spacing; every rowspan cell ends at least as high as its content plus
\* twice the padding, also when several rowspan cells overflow.
RowspanOverflow ==
    (op = "computeTableLayout" /\ grid.numCols > 0)
    => overflowHolds(table.rows, grid, table.y, table.cellspacing)

\* two rowspan cells overflow: the first grows the second row by 8, the
\* second, clamped to that row, grows it to its own height
RowspanOverflowReached ==
    /\ op = "computeTableLayout"
    /\ table.rows = <<<<Cell(0, 3, 0, 20 * Unit, 72 * Unit), PlainCell>>,
                      <<PlainCell, Cell(1, 2, 0, 20 * Unit, 120 * Unit), PlainCell>>>>
    /\ grid.rows[1].Height = 40 * Unit
    /\ grid.rows[2].Height = 136 * Unit
    /\ grid.cells[1][1].Height = 176 * Unit
    /\ grid.cells[2][2].Height = 136 * Unit

(***************************************************************************)
(* Text measuring (layout/measure.go) with TextMeasurer unset: every byte  *)
(* is half the font size wide.  Texts are ASCII, so bytes and runes agree. *)
(***************************************************************************)
MeasureText(text, fontSize) ==
    IF Len(text) = 0 THEN 0 ELSE Len(text) * (fontSize \div 2)

\* "width += extra; if width < 0 { return 0 }"
widened(width, extra) == IF width + extra < 0 THEN 0 ELSE width + extra

MeasureTextWithSpacing(text, fontSize, letterSpacing) ==
    IF letterSpacing = 0 \/ Len(text) <= 1 THEN MeasureText(text, fontSize)
    ELSE widened(MeasureText(text, fontSize), letterSpacing * (Len(text) - 1))

\* the runs of spaces and tabs in text[i..], inSpace telling whether
\* text[i-1] was one of them
RECURSIVE wordGapsFrom(_, _, _)
wordGapsFrom(text, i, inSpace) ==
    IF i > Len(text) THEN 0
    ELSE IF Ch(text, i) \in {" ", "\t"}
         THEN (IF inSpace THEN 0 ELSE 1) + wordGapsFrom(text, i + 1, TRUE)
    ELSE wordGapsFrom(text, i + 1, FALSE)

countWordGaps(text) == wordGapsFrom(text, 1, FALSE)

MeasureTextWithSpacingAndWordSpacing(text, fontSize, letterSpacing, wordSpacing) ==
    IF wordSpacing = 0 THEN MeasureTextWithSpacing(text, fontSize, letterSpacing)
    ELSE widened(MeasureTextWithSpacing(text, fontSize, letterSpacing),
                 wordSpacing * countWordGaps(text))

\* the loop of WrapTextWithSpacing over words[i..]; current is the line
\* being built ("" for an empty builder)
RECURSIVE wrapWords(_, _, _, _, _, _, _, _)
wrapWords(words, i, lines, current, fontSize, maxWidth, letterSpacing, wordSpacing) ==
    IF i > Len(words)
    THEN (IF current # "" THEN Append(lines, current) ELSE lines)
    ELSE IF current = ""
    THEN wrapWords(words, i + 1, lines, words[i],
                   fontSize, maxWidth, letterSpacing, wordSpacing)
    ELSE IF MeasureTextWithSpacingAndWordSpacing(current \o " " \o words[i], fontSize,
                                                 letterSpacing, wordSpacing) <= maxWidth
    THEN wrapWords(words, i + 1, lines, current \o " " \o words[i],
                   fontSize, maxWidth, letterSpacing, wordSpacing)
    ELSE wrapWords(words, i + 1, Append(lines, current), words[i],
                   fontSize, maxWidth, letterSpacing, wordSpacing)

startsWithSpace(text) == Len(text) > 0 /\ Ch(text, 1) \in {" ", "\t"}
endsWithSpace(text) == Len(text) > 0 /\ Ch(text, Len(text)) \in {" ", "\t"}

\* the leading and trailing space of the text go back on the first and last line
withEdgeSpaces(lines, text) ==
    IF lines = <<>> THEN lines
    ELSE [i \in 1..Len(lines) |->
            (IF i = 1 /\ startsWithSpace(text) THEN " " ELSE "")
            \o lines[i]
            \o (IF i = Len(lines) /\ endsWithSpace(text) THEN " " ELSE "")]

hasSpaceOrTab(text) == \E i \in 1..Len(text) : Ch(text, i) \in {" ", "\t"}

wrapFields(text, words, fontSize, maxWidth, letterSpacing, wordSpacing) ==
    IF words = <<>>
    THEN (IF TrimSpace(text) = "" /\ hasSpaceOrTab(text) THEN <<" ">> ELSE <<>>)
    ELSE withEdgeSpaces(wrapWords(words, 1, <<>>, "", fontSize, maxWidth,
                                  letterSpacing, wordSpacing), text)

WrapTextWithSpacing(text, fontSize, maxWidth, letterSpacing, wordSpacing) ==
    IF maxWidth <= 0 THEN <<text>>
    ELSE wrapFields(text, Fields(text), fontSize, maxWidth, letterSpacing, wordSpacing)

WrapText(text, fontSize, maxWidth) == WrapTextWithSpacing(text, fontSize, maxWidth, 0, 0)

\* the widest of the lines
RECURSIVE widestLine(_, _, _, _)
widestLine(lines, fontSize, letterSpacing, wordSpacing) ==
    IF lines = <<>> THEN 0
    ELSE MaxOf(MeasureTextWithSpacingAndWordSpacing(Head(lines), fontSize,
                                                    letterSpacing, wordSpacing),
               widestLine(Tail(lines), fontSize, letterSpacing, wordSpacing))

(***************************************************************************)
(* Block layout (unnamed/part_001, ComputeLayout and computeBlockLayout).  *)
(* A LayoutBox is a record; Children is the sequence of its child boxes    *)
(* and TagName is "" for a box without a node.  Lengths are hundredths of  *)
(* a pixel.  The boxes laid out here are blocks, text, inline boxes, line  *)
(* breaks, rules, images without size attributes and form controls;        *)
(* fieldsets, legends, tables and text inside <pre> are not among the      *)
(* inputs, and no style carries text-transform.                            *)
(***************************************************************************)
DefaultMargin == 8 * Unit
DefaultImageWidth == 200 * Unit
DefaultImageHeight == 150 * Unit

EdgeSizes(t, r, b, l) == [Top |-> t, Right |-> r, Bottom |-> b, Left |-> l]
RectOf(x, y, w, h) == [X |-> x, Y |-> y, Width |-> w, Height |-> h]

\* a LayoutBox as the box builder hands it over: no geometry yet
LayoutBox(type, tag, st, text, children) ==
    [Type |-> type, TagName |-> tag, Style |-> st, Text |-> text, Children |-> children,
     Position |-> "", Float |-> "", Top |-> 0, Left |-> 0, Right |-> 0, Bottom |-> 0,
     Rect |-> RectOf(0, 0, 0, 0), Margin |-> EdgeSizes(0, 0, 0, 0),
     Padding |-> EdgeSizes(0, 0, 0, 0), WrappedLines |-> <<>>]

getDefaultLineHeight(tagName) ==
    CASE tagName = "h1" -> 40 * Unit
      [] tagName = "h2" -> 32 * Unit
      [] tagName = "h3" -> 26 * Unit
      [] tagName = "h4" -> 24 * Unit
      [] tagName = "h5" -> 22 * Unit
      [] tagName = "h6" -> 20 * Unit
      [] tagName = "small" -> 18 * Unit
      [] OTHER -> 24 * Unit

getFontSize(tagName) ==
    CASE tagName = "h1" -> 32 * Unit
      [] tagName = "h2" -> 24 * Unit
      [] tagName = "h3" -> 18 * Unit
      [] tagName = "h4" -> 16 * Unit
      [] tagName = "h5" -> 14 * Unit
      [] tagName = "h6" -> 12 * Unit
      [] tagName = "small" -> 12 * Unit
      [] OTHER -> 16 * Unit

getLineHeightFromStyle(st, tagName) ==
    IF st.LineHeight > 0 THEN st.LineHeight ELSE getDefaultLineHeight(tagName)

\* getImageSize of a node without width and height attributes
getImageSize == <<DefaultImageWidth, DefaultImageHeight>>

firstText(children) ==
    SelectSeq(children, LAMBDA c : c.Type = "TextBox")

\* getButtonText of a button without a value attribute
getButtonText(b) ==
    IF firstText(b.Children) # <<>> THEN firstText(b.Children)[1].Text ELSE "Button"

blockLayoutParams(containerWidth, startX, startY, parentTag, viewportWidth) ==
    [containerWidth |-> containerWidth, startX |-> startX, startY |-> startY,
     parentTag |-> parentTag, viewportWidth |-> viewportWidth]

RECURSIVE offsetBox(_, _, _)
offsetBox(b, dx, dy) ==
    [b EXCEPT !.Rect.X = @ + dx, !.Rect.Y = @ + dy,
              !.Children = [i \in 1..Len(@) |-> offsetBox(@[i], dx, dy)]]

\* ---- the width and the content area of a block ----
isPositioned(c) == c.Position \in {"absolute", "fixed"}
isFloated(c) == ~isPositioned(c) /\ c.Float \in {"left", "right"}
isNormal(c) == ~isPositioned(c) /\ ~isFloated(c)

maxWidthOf(st, w) == IF st.MaxWidth > 0 /\ w > st.MaxWidth THEN st.MaxWidth ELSE w
minWidthOf(st, w) == maxWidthOf(st, IF st.MinWidth > 0 /\ w < st.MinWidth THEN st.MinWidth ELSE w)
boxWidth(st, containerWidth) ==
    minWidthOf(st, IF st.Width > 0 THEN st.Width ELSE containerWidth)

\* the content area: innerX and innerWidth
Inner(x, w) == [X |-> x, Width |-> w]
indentLeft(in, d) == IF d > 0 THEN Inner(in.X + d, in.Width - d) ELSE in
indentRight(in, d) == IF d > 0 THEN Inner(in.X, in.Width - d) ELSE in

tagIndent(tag) ==
    CASE tag \in {"ul", "ol", "menu"} -> 20 * Unit
      [] tag = "blockquote" -> 30 * Unit
      [] tag \in {"dd", "figure"} -> 40 * Unit
      [] OTHER -> 0

\* w is the width of the box
tagInner(tag, p, w) ==
    IF tag = "body"
    THEN Inner(p.startX + DefaultMargin, p.containerWidth - DefaultMargin * 2)
    ELSE IF tagIndent(tag) > 0
    THEN Inner(p.startX + tagIndent(tag), p.containerWidth - tagIndent(tag))
    ELSE Inner(p.startX, w)

verticalMargin(m, v) == [m EXCEPT !.Top = v, !.Bottom = v]

tagMargin(tag, m) ==
    CASE tag = "body" -> EdgeSizes(DefaultMargin, DefaultMargin, DefaultMargin, DefaultMargin)
      [] tag = "p" -> verticalMargin(m, 12 * Unit)
      [] tag = "h1" -> verticalMargin(m, 6 * Unit)
      [] tag = "h2" -> verticalMargin(m, 5 * Unit)
      [] tag \in {"h3", "h4", "h5", "h6", "ul", "ol", "menu"} -> verticalMargin(m, 4 * Unit)
      [] tag = "figure" -> verticalMargin(m, 16 * Unit)
      [] OTHER -> m

\* "if box.Style.F > 0 { edge.Side = box.Style.F }"
edgeIfPositive(e, side, v) == IF v > 0 THEN [e EXCEPT ![side] = v] ELSE e

\* both margins auto and a width: the box is centred when room is left over
isCentred(st, leftover) ==
    st.MarginLeftAuto /\ st.MarginRightAuto /\ st.Width > 0 /\ leftover > 0
usesSideMargins(st) == ~(st.MarginLeftAuto /\ st.MarginRightAuto /\ st.Width > 0)

marginOfBox(st, tag, m, leftover) ==
    IF isCentred(st, leftover)
    THEN [edgeIfPositive(edgeIfPositive(tagMargin(tag, m), "Top", st.MarginTop),
                         "Bottom", st.MarginBottom)
            EXCEPT !.Left = leftover \div 2, !.Right = leftover \div 2]
    ELSE edgeIfPositive(edgeIfPositive(tagMargin(tag, m), "Top", st.MarginTop),
                        "Bottom", st.MarginBottom)

paddingOfBox(st, pd) ==
    edgeIfPositive(edgeIfPositive(edgeIfPositive(edgeIfPositive(pd,
        "Top", st.PaddingTop), "Bottom", st.PaddingBottom),
        "Left", st.PaddingLeft), "Right", st.PaddingRight)

rectXOf(st, p, leftover) ==
    IF isCentred(st, leftover) THEN p.startX + leftover \div 2 ELSE p.startX

\* in is the content area the tag gives
innerAfterMargins(st, p, in, leftover) ==
    IF isCentred(st, leftover) THEN Inner(p.startX + leftover \div 2, in.Width)
    ELSE IF usesSideMargins(st)
    THEN indentRight(indentLeft(in, st.MarginLeft), st.MarginRight)
    ELSE in

innerOf(st, p, in, leftover) ==
    indentRight(indentLeft(indentRight(indentLeft(innerAfterMargins(st, p, in, leftover),
        st.PaddingLeft), st.PaddingRight),
        st.BorderLeftWidth), st.BorderRightWidth)

\* the content area of box b of width w under parameters p
contentArea(b, p, w) ==
    innerOf(b.Style, p, tagInner(b.TagName, p, w), p.containerWidth - w)

\* "Fieldset default styling": a border of 1px, written to the box's style
fieldsetStyled(b) ==
    IF b.Type = "FieldsetBox"
    THEN [b EXCEPT !.Style.BorderTopWidth = Unit, !.Style.BorderRightWidth = Unit,
                   !.Style.BorderBottomWidth = Unit, !.Style.BorderLeftWidth = Unit]
    ELSE b
\* and a padding of 10px
fieldsetPadding(b) ==
    IF b.Type = "FieldsetBox" THEN EdgeSizes(10 * Unit, 10 * Unit, 10 * Unit, 10 * Unit)
    ELSE b.Padding

\* the box with its normal-flow children only, its X, Y and Width, its
\* margins and its paddings
framed(b, p, w) ==
    [b EXCEPT !.Children = SelectSeq(@, isNormal),
              !.Rect = [@ EXCEPT !.X = rectXOf(b.Style, p, p.containerWidth - w),
                                 !.Y = p.startY, !.Width = w],
              !.Margin = marginOfBox(b.Style, b.TagName, @, p.containerWidth - w),
              !.Padding = paddingOfBox(b.Style, fieldsetPadding(b))]

\* ---- the legend of a fieldset ----
GetLegendText(b) ==
    IF firstText(b.Children) # <<>> THEN firstText(b.Children)[1].Text ELSE ""

\* the legend on the border of the fieldset, its texts 4px inside it
placedLegend(c, x, y) ==
    [c EXCEPT !.Rect = RectOf(x, y, MeasureText(GetLegendText(c), 16 * Unit) + 16 * Unit,
                              20 * Unit),
              !.Children = [i \in 1..Len(c.Children) |->
                               IF c.Children[i].Type = "TextBox"
                               THEN [c.Children[i] EXCEPT
                                        !.Rect = RectOf(x + 4 * Unit, y,
                                                        MeasureText(c.Children[i].Text, 16 * Unit),
                                                        20 * Unit)]
                               ELSE c.Children[i]]]

\* the index of the first legend among cs, 0 without one
legendIndex(cs) ==
    IF \E i \in 1..Len(cs) : cs[i].Type = "LegendBox"
    THEN CHOOSE i \in 1..Len(cs) :
            cs[i].Type = "LegendBox" /\ \A j \in 1..(i - 1) : cs[j].Type # "LegendBox"
    ELSE 0

\* the legend taken out of the flow and not put back
legendLost(cs, k, legend) == SubSeq(cs, 1, k - 1) \o SubSeq(cs, k + 1, Len(cs))
\* k is the index of the legend
legendFirst(cs, k, legend) == <<legend>> \o SubSeq(cs, 1, k - 1) \o SubSeq(cs, k + 1, Len(cs))

\* "Handle legend for fieldset": b is the framed box, in its content area
withLegend(b, p, in) ==
    IF b.Type # "FieldsetBox" \/ legendIndex(b.Children) = 0 THEN b
    ELSE [b EXCEPT !.Children =
             legendFirst(@, legendIndex(@),
                         placedLegend(@[legendIndex(@)], in.X + 12 * Unit,
                                      p.startY + b.Margin.Top - 10 * Unit))]

\* ---- inline boxes ----
inlineTag(b, parentTag) == IF b.TagName = "small" THEN "small" ELSE parentTag

addSize(a, b) == <<a[1] + b[1], MaxOf(a[2], b[2])>>

RECURSIVE computeInlineSize(_, _)

\* the width and height computeInlineSize gives child c of inline box b
inlineChildSize(b, c, parentTag) ==
    CASE c.Type = "TextBox" ->
            <<MeasureTextWithSpacingAndWordSpacing(c.Text, getFontSize(inlineTag(b, parentTag)),
                                                   b.Style.LetterSpacing, b.Style.WordSpacing),
              getLineHeightFromStyle(b.Style, inlineTag(b, parentTag))>>
      [] c.Type = "InlineBox" -> computeInlineSize(c, parentTag)
      [] c.Type = "ImageBox" -> getImageSize
      [] c.Type \in {"CheckboxBox", "RadioBox"} -> <<20 * Unit, 20 * Unit>>
      [] OTHER -> <<0, 0>>

RECURSIVE inlineSizeFrom(_, _, _)
inlineSizeFrom(b, i, parentTag) ==
    IF i > Len(b.Children) THEN <<0, 0>>
    ELSE addSize(inlineChildSize(b, b.Children[i], parentTag),
                 inlineSizeFrom(b, i + 1, parentTag))

computeInlineSize(b, parentTag) == inlineSizeFrom(b, 1, parentTag)

baselineOffset(b, parentTag) ==
    (getDefaultLineHeight(parentTag)
     - getLineHeightFromStyle(b.Style, inlineTag(b, parentTag))) \div 2

RECURSIVE layoutInlineChildren(_, _)

\* child c of inline box b, placed offsetX to the right of b; size is its
\* inlineChildSize
inlineChildAt(b, c, offsetX, size, parentTag) ==
    CASE c.Type = "TextBox" ->
            [c EXCEPT !.Rect = RectOf(b.Rect.X + offsetX,
                                      b.Rect.Y + baselineOffset(b, parentTag),
                                      size[1], size[2])]
      [] c.Type = "InlineBox" ->
            layoutInlineChildren(
                [c EXCEPT !.Rect = RectOf(b.Rect.X + offsetX,
                                          b.Rect.Y + baselineOffset(b, parentTag),
                                          size[1], size[2])], parentTag)
      [] c.Type \in {"ImageBox", "CheckboxBox", "RadioBox"} ->
            [c EXCEPT !.Rect = RectOf(b.Rect.X + offsetX, b.Rect.Y, size[1], size[2])]
      [] OTHER -> c

RECURSIVE inlineChildrenFrom(_, _, _, _)
inlineChildrenStep(b, i, offsetX, size, parentTag) ==
    <<inlineChildAt(b, b.Children[i], offsetX, size, parentTag)>>
    \o inlineChildrenFrom(b, i + 1, offsetX + size[1], parentTag)

inlineChildrenFrom(b, i, offsetX, parentTag) ==
    IF i > Len(b.Children) THEN <<>>
    ELSE inlineChildrenStep(b, i, offsetX,
                            inlineChildSize(b, b.Children[i], parentTag), parentTag)

layoutInlineChildren(b, parentTag) ==
    [b EXCEPT !.Children = inlineChildrenFrom(b, 1, 0, parentTag)]

\* ---- the line state of a block: yOffset, currentX, lineStartY, lineHeight, ----
\* ---- lineBoxes (indexes into done) and the children laid out so far       ----
Flow(y, x, lineY, lineH, line, done) ==
    [yOffset |-> y, currentX |-> x, lineStartY |-> lineY, lineHeight |-> lineH,
     lineBoxes |-> line, done |-> done]

RECURSIVE lineWidthOf(_, _)
lineWidthOf(done, line) ==
    IF line = <<>> THEN 0
    ELSE done[Head(line)].Rect.Width + lineWidthOf(done, Tail(line))

alignOffset(textAlign, innerWidth, lineWidth) ==
    CASE textAlign = "center" -> (innerWidth - lineWidth) \div 2
      [] textAlign = "right" -> innerWidth - lineWidth
      [] OTHER -> 0

shiftedLine(done, line, offset) ==
    [i \in 1..Len(done) |->
        IF \E k \in 1..Len(line) : line[k] = i THEN offsetBox(done[i], offset, 0)
        ELSE done[i]]

applyLineAlignment(done, line, innerWidth, textAlign) ==
    IF line = <<>> \/ textAlign = "" \/ textAlign = "left" THEN done
    ELSE shiftedLine(done, line, alignOffset(textAlign, innerWidth, lineWidthOf(done, line)))

\* "applyLineAlignment(lineBoxes, ...); lineBoxes = nil"
flushed(f, in, textAlign) ==
    [f EXCEPT !.done = applyLineAlignment(f.done, f.lineBoxes, in.Width, textAlign),
              !.lineBoxes = <<>>]

\* "if lineHeight > 0 { yOffset = lineStartY + lineHeight }"
lineEndY(f) == IF f.lineHeight > 0 THEN f.lineStartY + f.lineHeight ELSE f.yOffset

\* f is the flushed flow
hrStep(f, in, c) ==
    Flow(lineEndY(f) + 18 * Unit, in.X, lineEndY(f) + 18 * Unit, 0, <<>>,
         Append(f.done, [c EXCEPT !.Rect = RectOf(in.X, lineEndY(f) + 8 * Unit,
                                                  in.Width, 2 * Unit)]))

\* y is the yOffset after the break
brAt(f, in, c, y) ==
    Flow(y, in.X, y, 0, <<>>, Append(f.done, [c EXCEPT !.Rect = RectOf(f.currentX, y, 0, 0)]))

brStep(f, in, c, lineHeight) ==
    brAt(f, in, c, IF f.lineHeight > 0 THEN f.lineStartY + f.lineHeight
                   ELSE f.yOffset + lineHeight)

\* laid is the child block after its own layout at lineEndY(f)
afterBlock(f, in, laid) ==
    Flow(laid.Rect.Y + laid.Rect.Height, in.X, laid.Rect.Y + laid.Rect.Height, 0, <<>>,
         Append(f.done, laid))

\* the wrapped text child and its size
textSize(lines, fontSize, lineHeight, st) ==
    <<widestLine(lines, fontSize, st.LetterSpacing, st.WordSpacing),
      (IF Len(lines) = 0 THEN 1 ELSE Len(lines)) * lineHeight>>

wrappedText(c, st, parentTag, innerWidth) ==
    [c EXCEPT !.WrappedLines = WrapTextWithSpacing(c.Text, getFontSize(parentTag), innerWidth,
                                                   st.LetterSpacing, st.WordSpacing)]

\* childWidth and childHeight of an inline-level child c (a text child is
\* already wrapped); st is the style of the block
inlineLevelSize(c, st, parentTag) ==
    CASE c.Type = "TextBox" ->
            textSize(c.WrappedLines, getFontSize(parentTag),
                     getLineHeightFromStyle(st, parentTag), st)
      [] c.Type = "InlineBox" -> computeInlineSize(c, parentTag)
      [] c.Type = "ImageBox" -> <<getImageSize[1] + 4 * Unit, getImageSize[2]>>
      [] c.Type \in {"InputBox", "SelectBox"} -> <<200 * Unit, 28 * Unit>>
      [] c.Type \in {"RadioBox", "CheckboxBox"} -> <<20 * Unit, 20 * Unit>>
      [] c.Type = "ButtonBox" ->
            <<MeasureText(getButtonText(c), getFontSize(parentTag)) + 24 * Unit, 32 * Unit>>
      [] c.Type = "TextareaBox" -> <<300 * Unit, 80 * Unit>>
      [] c.Type = "FileInputBox" -> <<250 * Unit, 32 * Unit>>

InlineLevelTypes ==
    {"TextBox", "InlineBox", "ImageBox", "InputBox", "SelectBox", "RadioBox", "CheckboxBox",
     "ButtonBox", "TextareaBox", "FileInputBox"}

\* "if currentX+childWidth > innerX+innerWidth && currentX > innerX": a new line
wrapIfNeeded(f, in, w, textAlign) ==
    IF f.currentX + w > in.X + in.Width /\ f.currentX > in.X
    THEN Flow(f.lineStartY + f.lineHeight, in.X, f.lineStartY + f.lineHeight, 0, <<>>,
              flushed(f, in, textAlign).done)
    ELSE f

positionedInline(c, x, y, size, parentTag) ==
    IF c.Type = "InlineBox"
    THEN layoutInlineChildren([c EXCEPT !.Rect = RectOf(x, y, size[1], size[2])], parentTag)
    ELSE [c EXCEPT !.Rect = RectOf(x, y, size[1], size[2])]

\* f is the flow after the wrap test
inlineAt(f, c, size, parentTag) ==
    Flow(f.yOffset, f.currentX + size[1], f.lineStartY, MaxOf(size[2], f.lineHeight),
         Append(f.lineBoxes, Len(f.done) + 1),
         Append(f.done, positionedInline(c, f.currentX, f.lineStartY, size, parentTag)))

placeInline(f, in, c, size, parentTag, textAlign) ==
    inlineAt(wrapIfNeeded(f, in, size[1], textAlign), c, size, parentTag)

\* ---- computeBlockLayout ----
RECURSIVE computeBlockLayout(_, _)

inlineStep(f, in, c, st, parentTag) ==
    placeInline(f, in, c, inlineLevelSize(c, st, parentTag), parentTag, st.TextAlign)

\* one iteration of the loop over the normal-flow children of block b
childStep(b, p, in, c, f) ==
    CASE c.Type = "TextBox" ->
            inlineStep(f, in, wrappedText(c, b.Style, p.parentTag, in.Width), b.Style, p.parentTag)
      [] c.Type \in InlineLevelTypes \ {"TextBox"} -> inlineStep(f, in, c, b.Style, p.parentTag)
      [] c.Type = "LegendBox" -> [f EXCEPT !.done = Append(@, c)]
      [] c.Type = "HRBox" -> hrStep(flushed(f, in, b.Style.TextAlign), in, c)
      [] c.Type = "BRBox" ->
            brStep(flushed(f, in, b.Style.TextAlign), in, c,
                   getLineHeightFromStyle(b.Style, p.parentTag))
      [] OTHER ->
            afterBlock(flushed(f, in, b.Style.TextAlign), in,
                       computeBlockLayout(c, blockLayoutParams(in.Width, in.X, lineEndY(f),
                                                               c.TagName, p.viewportWidth)))

RECURSIVE childrenFlow(_, _, _, _, _)
childrenFlow(b, p, in, i, f) ==
    IF i > Len(b.Children) THEN f
    ELSE childrenFlow(b, p, in, i + 1, childStep(b, p, in, b.Children[i], f))

\* yOffset before the first child
contentTop(b, p) == p.startY + b.Margin.Top + b.Padding.Top + b.Style.BorderTopWidth

flowOf(b, p, in) ==
    flushed(childrenFlow(b, p, in, 1,
                         Flow(contentTop(b, p), in.X, contentTop(b, p), 0, <<>>, <<>>)),
            in, b.Style.TextAlign)

maxHeightOf(st, h) == IF st.MaxHeight > 0 /\ h > st.MaxHeight THEN st.MaxHeight ELSE h
minHeightOf(st, h) ==
    maxHeightOf(st, IF st.MinHeight > 0 /\ h < st.MinHeight THEN st.MinHeight ELSE h)
boxHeight(st, natural) == minHeightOf(st, IF st.Height > 0 THEN st.Height ELSE natural)

\* the framed box with its children laid out and its height
sized(b, p, f) ==
    [b EXCEPT !.Children = f.done,
              !.Rect.Height = boxHeight(b.Style, lineEndY(f) - p.startY + b.Margin.Bottom
                                                 + b.Padding.Bottom + b.Style.BorderBottomWidth)]

\* ---- absolutely positioned and fixed children ----
positionedWidth(c, p) ==
    IF c.Style.Width > 0 THEN c.Style.Width
    ELSE IF c.Position = "fixed" THEN p.viewportWidth
    ELSE p.containerWidth

\* laid is the child after its own layout at (0, 0); b the sized parent
positionedX(b, laid, p) ==
    IF laid.Style.LeftSet
    THEN (IF laid.Position = "fixed" THEN 0 ELSE p.startX) + laid.Left
    ELSE IF laid.Style.RightSet
    THEN (IF laid.Position = "fixed" THEN 0 ELSE p.startX)
         + (IF laid.Position = "fixed" THEN p.viewportWidth ELSE b.Rect.Width)
         - laid.Right - laid.Rect.Width
    ELSE (IF laid.Position = "fixed" THEN 0 ELSE p.startX)

positionedY(b, laid, p) ==
    IF laid.Style.TopSet
    THEN (IF laid.Position = "fixed" THEN 0 ELSE p.startY) + laid.Top
    ELSE IF laid.Style.BottomSet
    THEN (IF laid.Position = "fixed" THEN 0 ELSE p.startY)
         + b.Rect.Height - laid.Bottom - laid.Rect.Height
    ELSE (IF laid.Position = "fixed" THEN 0 ELSE p.startY)

placePositioned(b, laid, p) ==
    [b EXCEPT !.Children = Append(@, offsetBox(laid, positionedX(b, laid, p),
                                              positionedY(b, laid, p)))]

RECURSIVE withPositioned(_, _, _)
withPositioned(b, cs, p) ==
    IF cs = <<>> THEN b
    ELSE withPositioned(
            placePositioned(b, computeBlockLayout(Head(cs),
                                blockLayoutParams(positionedWidth(Head(cs), p), 0, 0, "",
                                                  p.viewportWidth)), p),
            Tail(cs), p)

\* ---- floated children ----
floatWidth(c) == IF c.Style.Width > 0 THEN c.Style.Width ELSE 100 * Unit

\* floatY
floatTop(b, p) == p.startY + b.Padding.Top + b.Style.BorderTopWidth

RECURSIVE withFloats(_, _, _, _, _)
\* laid is Head(cs) after its own layout at (0, 0)
floatStep(b, cs, p, laid, leftFloatX, rightFloatX) ==
    IF laid.Float = "left"
    THEN withFloats([b EXCEPT !.Children = Append(@, offsetBox(laid, leftFloatX, floatTop(b, p)))],
                    Tail(cs), p, leftFloatX + laid.Rect.Width, rightFloatX)
    ELSE withFloats([b EXCEPT !.Children =
                        Append(@, offsetBox(laid, rightFloatX - laid.Rect.Width, floatTop(b, p)))],
                    Tail(cs), p, leftFloatX, rightFloatX - laid.Rect.Width)

withFloats(b, cs, p, leftFloatX, rightFloatX) ==
    IF cs = <<>> THEN b
    ELSE floatStep(b, cs, p,
                   computeBlockLayout(Head(cs), blockLayoutParams(floatWidth(Head(cs)), 0, 0, "",
                                                                  p.viewportWidth)),
                   leftFloatX, rightFloatX)

\* orig is the box as it was handed over, b the framed box
laidOut(orig, b, p, in) ==
    withFloats(withPositioned(sized(b, p, flowOf(b, p, in)),
                              SelectSeq(orig.Children, isPositioned), p),
               SelectSeq(orig.Children, isFloated), p, in.X, in.X + in.Width)

blockOfWidth(b, p, w) ==
    laidOut(b, withLegend(framed(b, p, w), p, contentArea(b, p, w)), p, contentArea(b, p, w))

computeBlockLayout(b, p) ==
    blockOfWidth(fieldsetStyled(b), p, boxWidth(b.Style, p.containerWidth))

ComputeLayout(root, containerWidth) ==
    computeBlockLayout(root, blockLayoutParams(containerWidth, 0, 0, "", containerWidth))

MaxLayouts == 2

\* ComputeLayout(boxTree, pageWidth), which lays the tree out in place
CallComputeLayout ==
    /\ op \in {"init", "ComputeLayout"}
    /\ layouts < MaxLayouts
    /\ boxTree' = ComputeLayout(boxTree, pageWidth)
    /\ layouts' = layouts + 1
    /\ op' = "ComputeLayout"
    /\ UNCHANGED <<css, sheet, styleAttr, node, ctx, parentFontSize, style, pageWidth>>
    /\ UNCHANGED tableVars
    /\ UNCHANGED listVars
    /\ UNCHANGED matchVars
    /\ UNCHANGED wrapVars

(***************************************************************************)
(* SpecLayout: a box tree of up to MaxChildren children taken from         *)
(* ChildPool under a root from Roots is laid out up to MaxLayouts times.   *)
(***************************************************************************)
MaxChildren == 2

CentredStyle == [DefaultStyle EXCEPT !.TextAlign = "center"]

Text(t) == LayoutBox("TextBox", "", DefaultStyle, t, <<>>)
Inline(tag, children) == LayoutBox("InlineBox", tag, DefaultStyle, "", children)
Block(tag, st, children) == LayoutBox("BlockBox", tag, st, "", children)
Button(t) == LayoutBox("ButtonBox", "button", DefaultStyle, "", <<Text(t)>>)
Break == LayoutBox("BRBox", "br", DefaultStyle, "", <<>>)

\* <div style="position: absolute; top: 10px; left: 10px"><span>Hi<br></span></div>
AbsoluteBlock ==
    [Block("div", [DefaultStyle EXCEPT !.TopSet = TRUE, !.LeftSet = TRUE],
           <<Inline("span", <<Text("Hi"), Break>>)>>)
        EXCEPT !.Position = "absolute", !.Top = 10 * Unit, !.Left = 10 * Unit]

\* <div style="float: right; width: 40px">Hi</div>
FloatBlock ==
    [Block("div", [DefaultStyle EXCEPT !.Width = 40 * Unit], <<Text("Hi")>>)
        EXCEPT !.Float = "right"]

ChildPool ==
    {Text("Hello World"),
     Inline("small", <<Text("fine")>>),
     Button("OK"),
     Block("p", DefaultStyle, <<Text("Hello World")>>),
     AbsoluteBlock,
     FloatBlock}

Roots ==
    {Block(tag, st, children) :
        tag \in {"div", "body"}, st \in {DefaultStyle, CentredStyle},
        children \in SeqsUpTo(ChildPool, MaxChildren)}

ContainerWidths == {10 * Unit, 120 * Unit}

InitLayout ==
    /\ op = "init"
    /\ css = ""
    /\ sheet = Stylesheet(<<>>)
    /\ styleAttr = ""
    /\ node = DivNode
    /\ ctx = EmptyContext
    /\ parentFontSize = DefaultFontSize
    /\ style = DefaultStyle
    /\ NoTable
    /\ NoList
    /\ NoMatch
    /\ NoWrap
    /\ boxTree \in Roots
    /\ pageWidth \in ContainerWidths
    /\ layouts = 0

NextLayout == CallComputeLayout

SpecLayout == InitLayout /\ [][NextLayout]_vars

\* ---- what a layout pass leaves on the boxes ----
RECURSIVE geometry(_)
geometry(b) ==
    [Rect |-> b.Rect, WrappedLines |-> b.WrappedLines,
     Children |-> [i \in 1..Len(b.Children) |-> geometry(b.Children[i])]]

RECURSIVE nonNegative(_)
nonNegative(b) ==
    /\ b.Rect.Width >= 0
    /\ b.Rect.Height >= 0
    /\ \A i \in 1..Len(b.Children) : nonNegative(b.Children[i])

\* the greatest Y + Height among b and its normal-flow descendants
RECURSIVE flowBottom(_)
flowBottom(b) ==
    SetMax({b.Rect.Y + b.Rect.Height}
           \cup {flowBottom(b.Children[i]) :
                    i \in {k \in 1..Len(b.Children) : isNormal(b.Children[k])}})

RECURSIVE contained(_)
contained(b) ==
    /\ (b.Type = "BlockBox" /\ b.Style.Height = 0)
          => b.Rect.Y + b.Rect.Height >= flowBottom(b)
    /\ \A i \in 1..Len(b.Children) : contained(b.Children[i])

\* C11: a second ComputeLayout on the same tree with the same container
\* width leaves every box's Rect and every text box's WrappedLines as the
\* first call left them.
LayoutRepeatable ==
    op = "ComputeLayout"
    => geometry(ComputeLayout(boxTree, pageWidth)) = geometry(boxTree)

\* C12: after ComputeLayout every box of the tree has Rect.Width >= 0 and
\* Rect.Height >= 0.
NonNegativeGeometry == op = "ComputeLayout" => nonNegative(boxTree)

\* C13: after ComputeLayout every block box without an explicit height
\* reaches at least as far down as each of its normal-flow descendants.
FlowContained == op = "ComputeLayout" => contained(boxTree)

(***************************************************************************)
(* DOMTokenList (layout/compute.go, package dom): the token list of one    *)
(* attribute, kept as the attribute's text.                                *)
(***************************************************************************)
\* strings.Join(tokens, " ")
RECURSIVE Join(_)
Join(ts) ==
    IF ts = <<>> THEN ""
    ELSE IF Len(ts) = 1 THEN ts[1]
    ELSE ts[1] \o " " \o Join(Tail(ts))

\* d.tokens() for attribute value v
tokens(v) == IF v = "" THEN <<>> ELSE Fields(v)
\* d.save(tokens)
save(ts) == Join(ts)

Length(v) == Len(tokens(v))
Item(v, index) == IF index < 0 \/ index >= Length(v) THEN "" ELSE tokens(v)[index + 1]

Contains(v, t) == \E i \in 1..Length(v) : tokens(v)[i] = t

\* the attribute value after d.Add(t)
Add(v, t) == IF Contains(v, t) THEN v ELSE save(Append(tokens(v), t))

\* the attribute value after d.Remove(t)
Remove(v, t) == save(SelectSeq(tokens(v), LAMBDA x : x # t))

\* d.Toggle(t): the attribute value after the call and the value returned
Toggle(v, t) ==
    IF Contains(v, t) THEN [attr |-> Remove(v, t), result |-> FALSE]
    ELSE [attr |-> Add(v, t), result |-> TRUE]

MaxCalls == 3

\* the tokens scripts pass: plain tokens, the empty string and a string
\* holding a space
TokenPool == {"a", "b", "", "a b"}

listCall(name, t, after, returned) ==
    /\ op \in {"init", "Add", "Remove", "Toggle"}
    /\ calls < MaxCalls
    /\ op' = name
    /\ prev' = classAttr
    /\ token' = t
    /\ classAttr' = after
    /\ result' = returned
    /\ calls' = calls + 1
    /\ UNCHANGED <<css, sheet, styleAttr, node, ctx, parentFontSize, style>>
    /\ UNCHANGED tableVars
    /\ UNCHANGED layoutVars
    /\ UNCHANGED matchVars
    /\ UNCHANGED wrapVars

CallAdd == \E t \in TokenPool : listCall("Add", t, Add(classAttr, t), result)
CallRemove == \E t \in TokenPool : listCall("Remove", t, Remove(classAttr, t), result)
CallToggle ==
    \E t \in TokenPool : listCall("Toggle", t, Toggle(classAttr, t).attr, Toggle(classAttr, t).result)

(***************************************************************************)
(* SpecList: up to MaxCalls calls of Add, Remove and Toggle on a class     *)
(* attribute.                                                              *)
(***************************************************************************)
InitList ==
    /\ op = "init"
    /\ css = ""
    /\ sheet = Stylesheet(<<>>)
    /\ styleAttr = ""
    /\ node = DivNode
    /\ ctx = EmptyContext
    /\ parentFontSize = DefaultFontSize
    /\ style = DefaultStyle
    /\ NoTable
    /\ NoLayout
    /\ NoMatch
    /\ NoWrap
    /\ classAttr \in {"", "a", "b a", "a c a"}
    /\ prev = ""
    /\ token = ""
    /\ result = FALSE
    /\ calls = 0

NextList == CallAdd \/ CallRemove \/ CallToggle

SpecList == InitList /\ [][NextList]_vars

\* the tokens of v other than t, in order
others(v, t) == SelectSeq(tokens(v), LAMBDA x : x # t)

\* C18: Toggle(t) returns true exactly when Contains(t) was false before the
\* call, Contains(t) afterwards equals the returned value, and the other
\* tokens keep their relative order.
ToggleFlips ==
    op = "Toggle"
    => /\ result = ~Contains(prev, token)
       /\ Contains(classAttr, token) = result
       /\ others(classAttr, token) = others(prev, token)

\* matched := MatchSelectorNode(selector, node, ctx)
CallMatchSelectorNode ==
    /\ op = "init"
    /\ matched' = MatchSelectorNode(selector, node, ctx)
    /\ op' = "MatchSelectorNode"
    /\ UNCHANGED <<css, sheet, styleAttr, node, ctx, parentFontSize, style, selector>>
    /\ UNCHANGED tableVars
    /\ UNCHANGED layoutVars
    /\ UNCHANGED listVars
    /\ UNCHANGED wrapVars

(***************************************************************************)
(* SpecMatch: a selector chain of up to MaxChain simple selectors is       *)
(* matched against a node with up to MaxDepth - 1 nodes above it, some of  *)
(* them not elements.                                                      *)
(***************************************************************************)
MaxDepth == 3
MaxChain == 2

\* a node that is no element (a document or a fragment)
NonElement(parent) ==
    [Type |-> "Document", TagName |-> "",
     Attributes |-> [id |-> "", class |-> "", href |-> ""], Parent |-> parent]

RECURSIVE NodesUpTo(_)
nodesUnder(parents) ==
    {Element("div", "", "c", "", p) : p \in parents}
    \cup {Element("a", "", "", "h", p) : p \in parents}
    \cup {Element("a", "", "c", "", p) : p \in parents}
    \cup {NonElement(p) : p \in parents}
NodesUpTo(d) ==
    IF d = 1 THEN nodesUnder({<<>>})
    ELSE nodesUnder({<<>>} \cup {<<n>> : n \in NodesUpTo(d - 1)})

SimpleSelectors ==
    {Selector("div", "", <<>>, "", <<>>), Selector("", "", <<"c">>, "", <<>>),
     Selector("a", "", <<>>, "link", <<>>), Selector("a", "", <<>>, "visited", <<>>),
     Selector("a", "", <<>>, "hover", <<>>)}

RECURSIVE ChainsUpTo(_)
ChainsUpTo(k) ==
    IF k = 1 THEN SimpleSelectors
    ELSE SimpleSelectors
         \cup {[s EXCEPT !.Ancestor = <<anc>>] : s \in SimpleSelectors, anc \in ChainsUpTo(k - 1)}

\* IsVisited knows "h", but ResolveURL turns the href "h" into "b/h"
ResolvingContext == MatchContext(<<{"h"}>>, <<"b/">>)

InitMatch ==
    /\ op = "init"
    /\ css = ""
    /\ sheet = Stylesheet(<<>>)
    /\ styleAttr = ""
    /\ node \in NodesUpTo(MaxDepth)
    /\ ctx \in {EmptyContext, VisitedContext, ResolvingContext}
    /\ parentFontSize = DefaultFontSize
    /\ style = DefaultStyle
    /\ NoTable
    /\ NoLayout
    /\ NoList
    /\ NoWrap
    /\ selector \in ChainsUpTo(MaxChain)
    /\ matched = FALSE

NextMatch == CallMatchSelectorNode

SpecMatch == InitMatch /\ [][NextMatch]_vars

\* the proper ancestors of n that are elements
RECURSIVE elementAncestors(_)
elementAncestors(n) ==
    IF n.Parent = <<>> THEN {}
    ELSE (IF n.Parent[1].Type = "Element" THEN {n.Parent[1]} ELSE {})
         \cup elementAncestors(n.Parent[1])

\* n is an element passing the tag, id, class and pseudo-class tests of sel
passesOwnTests(sel, n, c) ==
    /\ n.Type = "Element"
    /\ sel.TagName \in {"", n.TagName}
    /\ sel.ID \in {"", n.Attributes.id}
    /\ \A i \in 1..Len(sel.Classes) :
          \E j \in 1..Len(Fields(n.Attributes.class)) :
              Fields(n.Attributes.class)[j] = sel.Classes[i]
    /\ matchPseudoClass(sel.PseudoClass, n.Attributes.href, c)

RECURSIVE descendantMatch(_, _, _)
descendantMatch(sel, n, c) ==
    /\ passesOwnTests(sel, n, c)
    /\ sel.Ancestor # <<>>
          => \E a \in elementAncestors(n) : descendantMatch(sel.Ancestor[1], a, c)

\* C14: MatchSelectorNode is true exactly when the node passes the
\* selector's own tests and, if the selector has an ancestor part, some proper
\* element ancestor at any depth matches that part in turn; a node that is no
\* element never matches and is skipped in the walk.
DescendantSemantics ==
    op = "MatchSelectorNode" => (matched <=> descendantMatch(selector, node, ctx))

\* ".c div" on a div whose parent is no element and whose grandparent has class c
DescendantSemanticsReached ==
    /\ op = "MatchSelectorNode"
    /\ matched
    /\ selector.Ancestor # <<>>
    /\ node.Parent # <<>>
    /\ node.Parent[1].Type # "Element"
    /\ node.Parent[1].Parent # <<>>

\* the two link states of node under ctx
matchesLink == MatchSelectorNode(Selector("a", "", <<>>, "link", <<>>), node, ctx)
matchesVisited == MatchSelectorNode(Selector("a", "", <<>>, "visited", <<>>), node, ctx)

\* IsVisited is present and true for the resolved href of node
visitedByContext ==
    /\ ctx.IsVisited # <<>>
    /\ (IF ctx.ResolveURL = <<>> THEN node.Attributes.href
        ELSE ctx.ResolveURL[1] \o node.Attributes.href) \in ctx.IsVisited[1]

\* C15: :link matches only an element with a non-empty href that IsVisited
\* is absent for or denies, :visited only one with a non-empty href that
\* IsVisited confirms, any other pseudo-class never; a:link and a:visited
\* never both match, and exactly one matches an <a> with a non-empty href.
PseudoClassMatching ==
    op = "MatchSelectorNode"
    => /\ (matched /\ selector.PseudoClass = "link")
             => (node.Attributes.href # "" /\ ~visitedByContext)
       /\ (matched /\ selector.PseudoClass = "visited")
             => (node.Attributes.href # "" /\ visitedByContext)
       /\ selector.PseudoClass \notin {"", "link", "visited"} => ~matched
       /\ ~(matchesLink /\ matchesVisited)
       /\ (node.Type = "Element" /\ node.TagName = "a" /\ node.Attributes.href # "")
             => (matchesLink \/ matchesVisited)

\* a:visited matched an <a href> the context knows as visited
PseudoClassMatchingReached ==
    /\ op = "MatchSelectorNode"
    /\ matched
    /\ selector.PseudoClass = "visited"
    /\ selector.Ancestor = <<>>
    /\ visitedByContext
    /\ ~matchesLink

(***************************************************************************)
(* SpecLenient: Parse and ParseInlineStyle on text that is not well        *)
(* formed: every string of up to MaxLen characters of CssAlphabet, and     *)
(* one-rule sheets whose block holds up to MaxDeclTexts declarations, some *)
(* of them without a colon.                                                *)
(***************************************************************************)
MaxLen == 3
MaxDeclTexts == 2

CssAlphabet == {"a", " ", "{", "}", ":", ";"}

RECURSIVE StringsUpTo(_)
StringsUpTo(n) ==
    IF n = 0 THEN {""}
    ELSE {""} \cup {c \o s : c \in CssAlphabet, s \in StringsUpTo(n - 1)}

Preludes == {"div", "a:link", ".nav:link", "a.active:hover", "div a:link", "a:link, a:visited"}
DeclTexts == {"color: red", "color", "color red"}

\* the texts joined by sep
RECURSIVE JoinWith(_, _)
JoinWith(texts, sep) ==
    IF texts = <<>> THEN ""
    ELSE IF Len(texts) = 1 THEN texts[1]
    ELSE texts[1] \o sep \o JoinWith(Tail(texts), sep)

RuleText(prelude, items) == prelude \o " { " \o JoinWith(items, "; ") \o " }"

RuleTexts ==
    {RuleText(prelude, items) :
        prelude \in Preludes, items \in SeqsUpTo(DeclTexts, MaxDeclTexts)}

InitLenient ==
    /\ op = "init"
    /\ \/ css \in StringsUpTo(MaxLen) /\ styleAttr = css
       \/ \E prelude \in Preludes, items \in SeqsUpTo(DeclTexts, MaxDeclTexts) :
             css = RuleText(prelude, items) /\ styleAttr = JoinWith(items, "; ")
    /\ sheet = Stylesheet(<<>>)
    /\ node = DivNode
    /\ ctx = EmptyContext
    /\ parentFontSize = DefaultFontSize
    /\ style = DefaultStyle
    /\ NoTable
    /\ NoLayout
    /\ NoList
    /\ NoMatch
    /\ NoWrap

NextLenient == CallParse \/ CallParseInlineStyle

SpecLenient == InitLenient /\ [][NextLenient]_vars

\* from every position a declaration, a compound selector and a rule can
\* start at, each ends inside the input, the declaration and the rule further on
parserAdvances(input) ==
    /\ \A q \in 0..(Len(input) - 1) :
          (Peek(input, q) # "}" /\ ~IsSpace(Peek(input, q)))
             => parseDeclaration(input, q).pos \in (q + 1)..Len(input)
    /\ \A p \in 0..Len(input) : parseCompoundSelector(input, p).pos \in p..Len(input)
    /\ \A q \in 0..(Len(input) - 1) :
          ~IsSpace(Peek(input, q)) => parseRule(input, q).pos \in (q + 1)..Len(input)

\* C16: Parse ends on every input with a Stylesheet: each iteration of the
\* stylesheet, selector-list and declaration loops moves the position
\* forward or ends the loop, and no position leaves the input.
ParserTerminates ==
    /\ op = "init" => parserAdvances(css)
    /\ op = "Parse" => Len(sheet.Rules) <= Len(css)

\* a stray "}" before an unclosed block that ends inside a declaration
ParserTerminatesReached ==
    /\ op = "Parse"
    /\ css = "}{:"
    /\ Len(sheet.Rules) = 1

hasColon(text) == IndexIn(text, ":") > 0

\* the ";"-separated declarations of body that hold a colon
colonOnly(body) == JoinWith(SelectSeq(Split(body, ";"), hasColon), ";")

\* the one-rule sheet s without its colon-less declarations
withoutMalformed(s) ==
    SubSeq(s, 1, IndexIn(s, "{"))
    \o colonOnly(SubSeq(s, IndexIn(s, "{") + 1, IndexIn(s, "}") - 1))
    \o SubSeq(s, IndexIn(s, "}"), Len(s))

\* C17: a declaration without a colon yields no Declaration and leaves the
\* resolved style alone, in Parse and in ParseInlineStyle: the result is that
\* of the text without the colon-less declarations.
MalformedDropped ==
    /\ (op = "Parse" /\ css \in RuleTexts) => sheet = Parse(withoutMalformed(css))
    /\ op = "ParseInlineStyle" => style = ParseInlineStyle(colonOnly(styleAttr))

PlainSelector(tag, classes, pseudo) == Selector(tag, "", classes, pseudo, <<>>)

\* the selector list CSS gives each prelude
expectedSelectors(prelude) ==
    CASE prelude = "div" -> <<PlainSelector("div", <<>>, "")>>
      [] prelude = "a:link" -> <<PlainSelector("a", <<>>, "link")>>
      [] prelude = ".nav:link" -> <<PlainSelector("", <<"nav">>, "link")>>
      [] prelude = "a.active:hover" -> <<PlainSelector("a", <<"active">>, "hover")>>
      [] prelude = "div a:link" ->
            <<Selector("a", "", <<>>, "link", <<PlainSelector("div", <<>>, "")>>)>>
      [] prelude = "a:link, a:visited" ->
            <<PlainSelector("a", <<>>, "link"), PlainSelector("a", <<>>, "visited")>>

\* the text before " {"
preludeOf(s) == SubSeq(s, 1, IndexIn(s, "{") - 2)

\* C19: Parse turns a simple selector followed by ":name" into one Selector
\* with PseudoClass name, the Ancestor chain unchanged, and the selector list
\* has one entry per comma-separated selector.
PseudoClassParsed ==
    (op = "Parse" /\ css \in RuleTexts)
    => /\ sheet.Rules # <<>>
       /\ sheet.Rules[1].Selectors = expectedSelectors(preludeOf(css))

(***************************************************************************)
(* SpecBox: the four resolvers on up to MaxBoxDecls margin and padding     *)
(* declarations with one to four values.                                   *)
(***************************************************************************)
MaxBoxDecls == 2

MarginValues == {"10px", "10px 20px", "10px 20px 30px", "10px 20px 30px 40px", "0 auto"}
PaddingValues == {"10px", "10px 20px", "10px 20px 30px", "10px 20px 30px 40px"}
BoxDecls ==
    {Declaration("margin", v, FALSE) : v \in MarginValues}
    \cup {Declaration("padding", v, FALSE) : v \in PaddingValues}
    \cup {Declaration("margin-left", v, FALSE) : v \in {"auto", "5px"}}

InitBox == InitDeclarations(SeqsUpTo(BoxDecls, MaxBoxDecls))

SpecBox == InitBox /\ [][NextResolve]_vars

\* one value of a box shorthand
sideValue(v) ==
    IF ToLower(v) = "auto" THEN [size |-> 0, auto |-> TRUE]
    ELSE [size |-> ParseSize(v), auto |-> FALSE]

\* top, right, bottom, left of one to four values, as CSS expands them
fourSides(parts) ==
    CASE Len(parts) = 1 -> <<parts[1], parts[1], parts[1], parts[1]>>
      [] Len(parts) = 2 -> <<parts[1], parts[2], parts[1], parts[2]>>
      [] Len(parts) = 3 -> <<parts[1], parts[2], parts[3], parts[2]>>
      [] Len(parts) = 4 -> <<parts[1], parts[2], parts[3], parts[4]>>

\* the margins, paddings and auto flags of a style; a side that is auto
\* counts as 0
boxOf(st) ==
    [MarginTop |-> st.MarginTop,
     MarginRight |-> IF st.MarginRightAuto THEN 0 ELSE st.MarginRight,
     MarginBottom |-> st.MarginBottom,
     MarginLeft |-> IF st.MarginLeftAuto THEN 0 ELSE st.MarginLeft,
     MarginRightAuto |-> st.MarginRightAuto,
     MarginLeftAuto |-> st.MarginLeftAuto,
     PaddingTop |-> st.PaddingTop, PaddingRight |-> st.PaddingRight,
     PaddingBottom |-> st.PaddingBottom, PaddingLeft |-> st.PaddingLeft]

withMargins(box, sides) ==
    [box EXCEPT !.MarginTop = sideValue(sides[1]).size,
                !.MarginRight = sideValue(sides[2]).size,
                !.MarginBottom = sideValue(sides[3]).size,
                !.MarginLeft = sideValue(sides[4]).size,
                !.MarginRightAuto = sideValue(sides[2]).auto,
                !.MarginLeftAuto = sideValue(sides[4]).auto]

withPaddings(box, sides) ==
    [box EXCEPT !.PaddingTop = sideValue(sides[1]).size,
                !.PaddingRight = sideValue(sides[2]).size,
                !.PaddingBottom = sideValue(sides[3]).size,
                !.PaddingLeft = sideValue(sides[4]).size]

withDeclaration(box, d) ==
    CASE d.Property = "margin" -> withMargins(box, fourSides(Fields(d.Value)))
      [] d.Property = "padding" -> withPaddings(box, fourSides(Fields(d.Value)))
      [] d.Property = "margin-left" ->
            [box EXCEPT !.MarginLeft = sideValue(d.Value).size,
                        !.MarginLeftAuto = sideValue(d.Value).auto]

RECURSIVE expandedBox(_, _, _)
expandedBox(box, ds, i) ==
    IF i > Len(ds) THEN box ELSE expandedBox(withDeclaration(box, ds[i]), ds, i + 1)

\* what the resolver named by op gives without any declaration
undeclared(name) ==
    CASE name = "ParseInlineStyle" -> ParseInlineStyle("")
      [] name = "ParseInlineStyleWithContext" ->
            ParseInlineStyleWithContext("", parentFontSize,
                                        DefaultViewportWidth, DefaultViewportHeight)
      [] name = "ApplyStylesheet" ->
            ApplyStylesheet(Stylesheet(<<>>), node.TagName, node.Attributes.id,
                            Fields(node.Attributes.class))
      [] name = "ApplyStylesheetWithContext" ->
            ApplyStylesheetWithContext(Stylesheet(<<>>), node, parentFontSize,
                                       DefaultViewportWidth, DefaultViewportHeight, ctx)

\* C20: margin and padding take one to four values and expand them to
\* top, right, bottom, left as CSS does, in inline styles as in stylesheets;
\* a margin side given as auto sets the side's flag with the value 0, and a
\* later length for the side clears the flag.
BoxShorthands ==
    op # "init"
    => boxOf(style) = expandedBox(boxOf(undeclared(op)),
                                  [i \in 1..Len(sheet.Rules) |-> sheet.Rules[i].Declarations[1]], 1)

(***************************************************************************)
(* SpecInvalid: the four resolvers on up to MaxInvalidDecls declarations,  *)
(* some with a value that is not valid for the property.                   *)
(***************************************************************************)
MaxInvalidDecls == 2

InvalidValues == {"notacolor", "banana", "950"}
InvalidDecls ==
    {Declaration("color", "red", FALSE), Declaration("color", "blue", FALSE),
     Declaration("color", "notacolor", FALSE), Declaration("color", "notacolor", TRUE),
     Declaration("font-weight", "bold", FALSE), Declaration("font-weight", "banana", FALSE),
     Declaration("font-weight", "950", FALSE),
     Declaration("font-size", "20px", FALSE), Declaration("font-size", "banana", FALSE)}

InitInvalid == InitDeclarations(SeqsUpTo(InvalidDecls, MaxInvalidDecls))

SpecInvalid == InitInvalid /\ [][NextResolve]_vars

hasValidValue(d) == d.Value \notin InvalidValues

\* the resolver named by name, run on the declarations ds
resolveWith(name, ds) ==
    CASE name = "ParseInlineStyle" -> ParseInlineStyle(Render(ds))
      [] name = "ParseInlineStyleWithContext" ->
            ParseInlineStyleWithContext(Render(ds), parentFontSize,
                                        DefaultViewportWidth, DefaultViewportHeight)
      [] name = "ApplyStylesheet" ->
            ApplyStylesheet(SheetOf(ds), node.TagName, node.Attributes.id,
                            Fields(node.Attributes.class))
      [] name = "ApplyStylesheetWithContext" ->
            ApplyStylesheetWithContext(SheetOf(ds), node, parentFontSize,
                                       DefaultViewportWidth, DefaultViewportHeight, ctx)

\* C21: a declaration whose value is not valid for its property leaves the
\* resolved Style as it would be without the declaration: it changes no
\* property and stops no valid declaration from applying.
InvalidIgnored ==
    op # "init"
    => style = resolveWith(op, SelectSeq(allDeclarations(sheet.Rules, 1), hasValidValue))

(***************************************************************************)
(* SpecAligned: tables of up to MaxAlignedRows rows whose cells are        *)
(* aligned to the top, the middle, the bottom or the baseline, next to     *)
(* taller cells and to rowspan cells that overflow their rows.             *)
(***************************************************************************)
MaxAlignedRows == 2

AlignedCell(valign, content) == [PlainCell EXCEPT !.valign = valign, !.content = content]
TallCell == Cell(0, 0, 0, 20 * Unit, 48 * Unit)

AlignedRowPool ==
    {<<TallCell, AlignedCell("middle", 24 * Unit)>>,
     <<TallCell, AlignedCell("bottom", 24 * Unit)>>,
     <<TallCell, AlignedCell("top", 24 * Unit), AlignedCell("baseline", 24 * Unit)>>,
     <<AlignedCell("middle", 24 * Unit), TallCell, PlainCell>>,
     <<Cell(0, 2, 0, 20 * Unit, 120 * Unit), AlignedCell("middle", 24 * Unit)>>,
     <<AlignedCell("bottom", 24 * Unit), Cell(0, 2, 0, 20 * Unit, 120 * Unit)>>,
     <<AlignedCell("bottom", 48 * Unit)>>}

InitTableOf(inputs) ==
    /\ op = "init"
    /\ css = ""
    /\ sheet = Stylesheet(<<>>)
    /\ styleAttr = ""
    /\ node = DivNode
    /\ ctx = EmptyContext
    /\ parentFontSize = DefaultFontSize
    /\ style = DefaultStyle
    /\ table \in inputs
    /\ NoLayout
    /\ NoList
    /\ NoMatch
    /\ NoWrap
    /\ grid = <<>>

InitAligned ==
    InitTableOf({Table(wc[1], wc[2], rows) :
                    wc \in {<<0, 0>>, <<300 * Unit, 2 * Unit>>},
                    rows \in SeqsUpTo(AlignedRowPool, MaxAlignedRows) \ {<<>>}})

SpecAligned == InitAligned /\ [][NextTable]_vars

\* the slack above the content of a cell aligned va
slackAbove(va, innerHeight, contentHeight) ==
    CASE va \in {"top", "baseline", ""} -> 0
      [] va = "middle" -> (innerHeight - contentHeight) \div 2
      [] va = "bottom" -> innerHeight - contentHeight

contentAligned(cell, rect) ==
    rect.ContentY = rect.Y + DefaultCellPadding
                    + slackAbove(cell.valign, rect.Height - 2 * DefaultCellPadding, cell.content)

\* C22: after computeTableLayout the content of every cell with rowspan 1
\* starts at cell.Rect.Y + cellPadding + d, with d = 0 for top, baseline and
\* unset, half the free inner height for middle and all of it for bottom,
\* also when a rowspan cell overflowed and the rows were repositioned.
VerticalAlignment ==
    (op = "computeTableLayout" /\ grid.numCols > 0)
    => \A k \in cellIndexes(table.rows) :
           getCellRowSpan(table.rows[k[1]][k[2]]) = 1
           => contentAligned(table.rows[k[1]][k[2]], grid.cells[k[1]][k[2]])

(***************************************************************************)
(* SpecInline: a left-aligned block of up to MaxInlineChildren inline-     *)
(* level children, line breaks and paragraphs, in containers narrower and  *)
(* wider than its boxes.                                                   *)
(***************************************************************************)
MaxInlineChildren == 3

InitLayoutOf(roots, widths) ==
    /\ op = "init"
    /\ css = ""
    /\ sheet = Stylesheet(<<>>)
    /\ styleAttr = ""
    /\ node = DivNode
    /\ ctx = EmptyContext
    /\ parentFontSize = DefaultFontSize
    /\ style = DefaultStyle
    /\ NoTable
    /\ NoList
    /\ NoMatch
    /\ NoWrap
    /\ boxTree \in roots
    /\ pageWidth \in widths
    /\ layouts = 0

\* <span><br></span> is an inline box without width or height, a text
\* without words a box without width
InlinePool ==
    {Text("Hello World"), Text("Hi"), Text(""), Button("OK"),
     Inline("small", <<Text("fine")>>), Inline("span", <<Break>>), Break,
     Block("p", DefaultStyle, <<Text("Hi")>>)}

InitInline ==
    InitLayoutOf({Block(tag, DefaultStyle, children) :
                     tag \in {"div", "body"},
                     children \in SeqsUpTo(InlinePool, MaxInlineChildren)},
                 {40 * Unit, 70 * Unit, 120 * Unit})

SpecInline == InitInline /\ [][NextLayout]_vars

\* the content area of the root
rootInner ==
    contentArea(boxTree, blockLayoutParams(pageWidth, 0, 0, "", pageWidth),
                boxWidth(boxTree.Style, pageWidth))

isInlineLevel(c) == c.Type \in InlineLevelTypes

isAt(c, x, y) == c.Rect.X = x /\ c.Rect.Y = y

\* the boxes from cs[i] to the next child that ends the line stand where
\* greedy line breaking puts boxes of their sizes: x is the end of the line
\* so far, lineY its Y and lineH its tallest box
RECURSIVE brokenFrom(_, _, _, _, _, _)
brokenFrom(cs, i, x, lineY, lineH, in) ==
    IF i > Len(cs) \/ ~isInlineLevel(cs[i]) THEN TRUE
    ELSE IF x + cs[i].Rect.Width > in.X + in.Width
    THEN /\ isAt(cs[i], in.X, lineY + lineH)
         /\ brokenFrom(cs, i + 1, in.X + cs[i].Rect.Width, lineY + lineH,
                       cs[i].Rect.Height, in)
    ELSE /\ isAt(cs[i], x, lineY)
         /\ brokenFrom(cs, i + 1, x + cs[i].Rect.Width, lineY,
                       MaxOf(lineH, cs[i].Rect.Height), in)

\* cs[i] is the first box of a line that no earlier inline-level box opened
opensLine(cs, i) == isInlineLevel(cs[i]) /\ (i = 1 \/ ~isInlineLevel(cs[i - 1]))

\* C24: an inline-level child that is not the first box of its line ends
\* within the content width; a child starts a new line only if it is not the
\* first box of the line and would otherwise exceed the content width, and
\* the new line starts at the content left and at the previous line's Y plus
\* its tallest box.
InlineLineBreaking ==
    op = "ComputeLayout"
    => \A i \in 1..Len(boxTree.Children) :
          opensLine(boxTree.Children, i)
          => brokenFrom(boxTree.Children, i + 1,
                        boxTree.Children[i].Rect.X + boxTree.Children[i].Rect.Width,
                        boxTree.Children[i].Rect.Y, boxTree.Children[i].Rect.Height, rootInner)

(***************************************************************************)
(* SpecFloat: a block of up to MaxFloatChildren children, floated to the   *)
(* left and to the right, with and without a width, among normal-flow      *)
(* children.                                                               *)
(***************************************************************************)
MaxFloatChildren == 3

Floated(side, st, children) == [Block("div", st, children) EXCEPT !.Float = side]

\* <div style="float: left; width: 30px; max-width: 20px; margin: 0 auto">Hi</div>
NarrowedFloat ==
    Floated("left", [DefaultStyle EXCEPT !.Width = 30 * Unit, !.MaxWidth = 20 * Unit,
                                         !.MarginLeftAuto = TRUE, !.MarginRightAuto = TRUE],
            <<Text("Hi")>>)

FloatPool ==
    {Text("Hello World"),
     Block("p", DefaultStyle, <<Text("Hi")>>),
     Block("div", DefaultStyle, <<FloatBlock, Text("Hi")>>),
     Floated("left", DefaultStyle, <<Text("Hi")>>),
     Floated("left", [DefaultStyle EXCEPT !.Width = 30 * Unit], <<Text("Hi")>>),
     Floated("right", DefaultStyle, <<>>),
     FloatBlock,
     NarrowedFloat}

InitFloat ==
    InitLayoutOf({Block(tag, DefaultStyle, children) :
                     tag \in {"div", "body"},
                     children \in SeqsUpTo(FloatPool, MaxFloatChildren)},
                 {70 * Unit, 300 * Unit})

SpecFloat == InitFloat /\ [][NextLayout]_vars

\* the tree without its floated boxes
RECURSIVE withoutFloats(_)
withoutFloats(b) ==
    [b EXCEPT !.Children = [i \in 1..Len(SelectSeq(@, LAMBDA c : ~isFloated(c))) |->
                               withoutFloats(SelectSeq(@, LAMBDA c : ~isFloated(c))[i])]]

floatsOf(b) == SelectSeq(b.Children, isFloated)

\* the widths of the floats of side among the first n of fs
RECURSIVE floatWidths(_, _, _)
floatWidths(fs, n, side) ==
    IF n = 0 THEN 0
    ELSE floatWidths(fs, n - 1, side)
         + (IF fs[n].Float = side THEN fs[n].Rect.Width ELSE 0)

floatPlaced(fs, i, in) ==
    /\ fs[i].Rect.Y = fs[1].Rect.Y
    /\ fs[i].Float = "left" => fs[i].Rect.X = in.X + floatWidths(fs, i - 1, "left")
    /\ fs[i].Float = "right"
          => fs[i].Rect.X = in.X + in.Width - floatWidths(fs, i, "right")

\* C25: the boxes in normal flow, their wrapped lines and the block itself
\* are laid out as they are without the floated boxes, and the floated boxes
\* stand at one Y, the left ones side by side from the content left, the
\* right ones side by side from the content right.
FloatsOutOfFlow ==
    [][op' = "ComputeLayout"
       => /\ geometry(withoutFloats(boxTree'))
                = geometry(ComputeLayout(withoutFloats(boxTree), pageWidth))
          /\ \A i \in 1..Len(floatsOf(boxTree')) :
                floatPlaced(floatsOf(boxTree'), i, rootInner')]_vars

\* the half of C25 about the normal flow
FlowIgnoresFloats ==
    [][op' = "ComputeLayout"
       => geometry(withoutFloats(boxTree'))
              = geometry(ComputeLayout(withoutFloats(boxTree), pageWidth))]_vars

\* the half of C25 about the floats, for the floats the block does not centre
FloatCursors ==
    op = "ComputeLayout"
    => \A i \in 1..Len(floatsOf(boxTree)) :
          (\A j \in 1..i : floatsOf(boxTree)[j].Style.MaxWidth = 0)
          => floatPlaced(floatsOf(boxTree), i, rootInner)

(***************************************************************************)
(* SpecPositioned: a block of up to MaxPositionedChildren children,        *)
(* absolutely positioned and fixed ones with and without offsets and       *)
(* widths, under roots with and without indentation and padding.           *)
(***************************************************************************)
MaxPositionedChildren == 2

\* a box of the given position with the offsets of sides set to v
Positioned(position, st, sides, v) ==
    [Block("div", [st EXCEPT !.TopSet = "top" \in sides, !.LeftSet = "left" \in sides,
                             !.RightSet = "right" \in sides, !.BottomSet = "bottom" \in sides],
           <<Inline("span", <<Text("Hi")>>)>>)
        EXCEPT !.Position = position,
               !.Top = IF "top" \in sides THEN v ELSE 0,
               !.Left = IF "left" \in sides THEN v ELSE 0,
               !.Right = IF "right" \in sides THEN v ELSE 0,
               !.Bottom = IF "bottom" \in sides THEN v ELSE 0]

PositionedPool ==
    {Text("Hello World"),
     Block("p", DefaultStyle, <<Text("Hi")>>),
     Positioned("absolute", DefaultStyle, {}, 0),
     Positioned("absolute", DefaultStyle, {"top", "left"}, 10 * Unit),
     Positioned("absolute", [DefaultStyle EXCEPT !.Width = 40 * Unit], {"right", "bottom"}, 0),
     Positioned("absolute", DefaultStyle, {"top", "left", "right", "bottom"}, 0),
     Positioned("fixed", DefaultStyle, {"right"}, 5 * Unit),
     Positioned("fixed", [DefaultStyle EXCEPT !.Width = 40 * Unit], {"left", "bottom"}, 0)}

PaddedStyle == [DefaultStyle EXCEPT !.PaddingLeft = 10 * Unit, !.PaddingRight = 10 * Unit]

InitPositioned ==
    InitLayoutOf({Block(tag, st, children) :
                     tag \in {"div", "body"}, st \in {DefaultStyle, PaddedStyle},
                     children \in SeqsUpTo(PositionedPool, MaxPositionedChildren)},
                 {70 * Unit, 300 * Unit})

SpecPositioned == InitPositioned /\ [][NextLayout]_vars

\* the containing block of child c of the laid out block b: the block,
\* which starts at the origin, or the viewport
containing(b, c, viewportWidth) ==
    IF c.Position = "fixed" THEN RectOf(0, 0, viewportWidth, b.Rect.Height)
    ELSE RectOf(b.Rect.X, b.Rect.Y, b.Rect.Width, b.Rect.Height)

\* c laid out at the origin with width w when it has none of its own
atOrigin(c, w, viewportWidth) ==
    computeBlockLayout(c, blockLayoutParams(IF c.Style.Width > 0 THEN c.Style.Width ELSE w,
                                            0, 0, "", viewportWidth))

offsetX(laid, cb) ==
    IF laid.Style.LeftSet THEN cb.X + laid.Left
    ELSE IF laid.Style.RightSet THEN cb.X + cb.Width - laid.Right - laid.Rect.Width
    ELSE cb.X

offsetY(laid, cb) ==
    IF laid.Style.TopSet THEN cb.Y + laid.Top
    ELSE IF laid.Style.BottomSet THEN cb.Y + cb.Height - laid.Bottom - laid.Rect.Height
    ELSE cb.Y

translated(laid, cb) == offsetBox(laid, offsetX(laid, cb), offsetY(laid, cb))

\* the positioned children of before stand in after, the block laid out,
\* as the rule with default width w for absolute children places them
positionedBy(before, after, w, viewportWidth) ==
    \A i \in 1..Len(SelectSeq(before.Children, isPositioned)) :
        geometry(SelectSeq(after.Children, isPositioned)[i])
            = geometry(translated(
                  atOrigin(SelectSeq(before.Children, isPositioned)[i],
                           IF SelectSeq(before.Children, isPositioned)[i].Position = "fixed"
                           THEN viewportWidth ELSE w,
                           viewportWidth),
                  containing(after, SelectSeq(before.Children, isPositioned)[i],
                             viewportWidth)))

\* C26: an absolutely positioned child without a width is laid out with the
\* content width of its containing block, a fixed one with the viewport
\* width; the subtree is laid out at the origin and moved as a whole to
\* (x, y): x from left if set, else from right if set, else the containing
\* block's origin, y likewise from top before bottom, an offset set to 0
\* counting as set.
PositionedPlacement ==
    [][op' = "ComputeLayout"
       => positionedBy(boxTree, boxTree', rootInner'.Width, pageWidth)]_vars

\* the same with the width the block was given for its own layout
PositionedInContainer ==
    [][op' = "ComputeLayout" => positionedBy(boxTree, boxTree', pageWidth, pageWidth)]_vars

(***************************************************************************)
(* SpecPercent: tables of up to MaxPercentRows rows whose cells have       *)
(* percentage widths, with and without a table width and cellspacing.      *)
(***************************************************************************)
MaxPercentRows == 2

\* <td style="width: p%">
PercentCell(p) == [PlainCell EXCEPT !.percent = p]

\* the first row is that of TestTableCellCSSWidth, "percentage width on td"
PercentRowPool ==
    {<<PercentCell(25), PercentCell(50), PercentCell(25)>>,
     <<PercentCell(50), PlainCell>>,
     <<PercentCell(50)>>,
     <<PlainCell, PercentCell(25)>>,
     <<PlainCell, PlainCell>>}

InitPercent ==
    InitTableOf({Table(w, c, rows) :
                    w \in {0, 200 * Unit, 300 * Unit}, c \in {0, 2 * Unit},
                    rows \in SeqsUpTo(PercentRowPool, MaxPercentRows) \ {<<>>}})

SpecPercent == InitPercent /\ [][NextTable]_vars

\* the greatest percentage among the cells K, which have no width in px
greatestPercent(rows, K) == SetMax({0} \cup {rows[k[1]][k[2]].percent : k \in K})

\* C27: a cell without colspan and with CSS width p% gives its column p/100
\* of the table's resolved width, whether or not the table has a width of
\* its own.
PercentOfTable ==
    (op = "computeTableLayout" /\ grid.numCols > 0)
    => \A k \in cellIndexes(table.rows) :
          (getCellColSpan(table.rows[k[1]][k[2]]) = 1 /\ table.rows[k[1]][k[2]].percent > 0)
          => grid.cells[k[1]][k[2]].Width * 100
                = grid.Width * greatestPercent(table.rows,
                                               columnCells(table.rows, columnsOf(grid.cells),
                                                           grid.cells[k[1]][k[2]].col))

\* the same of the width of the table's container
PercentOfContainer ==
    (op = "computeTableLayout" /\ grid.numCols > 0)
    => \A k \in cellIndexes(table.rows) :
          (getCellColSpan(table.rows[k[1]][k[2]]) = 1 /\ table.rows[k[1]][k[2]].percent > 0)
          => grid.cells[k[1]][k[2]].Width * 100
                = table.containerWidth
                  * greatestPercent(table.rows,
                                    columnCells(table.rows, columnsOf(grid.cells),
                                                grid.cells[k[1]][k[2]].col))

(***************************************************************************)
(* SpecWrap: WrapTextWithSpacing on texts of up to MaxWords words, with    *)
(* and without a space at either end, letter-spacing and word-spacing.     *)
(***************************************************************************)
MaxWords == 3

\* WrapTextWithSpacing(text, fontSize, maxWidth, letterSpacing, wordSpacing)
CallWrapTextWithSpacing ==
    /\ op = "init"
    /\ wrapArgs # <<>>
    /\ wrapLines' = WrapTextWithSpacing(wrapArgs.text, wrapArgs.fontSize, wrapArgs.maxWidth,
                                        wrapArgs.letterSpacing, wrapArgs.wordSpacing)
    /\ op' = "WrapTextWithSpacing"
    /\ UNCHANGED <<css, sheet, styleAttr, node, ctx, parentFontSize, style, wrapArgs>>
    /\ UNCHANGED tableVars
    /\ UNCHANGED layoutVars
    /\ UNCHANGED listVars
    /\ UNCHANGED matchVars

WordPool == {"a", "ab", "cde"}
EdgePool == {"", " "}

WrapTexts ==
    {lead \o Join(ws) \o trail :
        lead \in EdgePool, trail \in EdgePool, ws \in SeqsUpTo(WordPool, MaxWords) \ {<<>>}}

\* with the default font size a character is 8px wide
WrapInputs ==
    [text : WrapTexts, fontSize : {DefaultFontSize},
     maxWidth : {16 * Unit, 24 * Unit, 40 * Unit, 48 * Unit},
     letterSpacing : {0, 1 * Unit}, wordSpacing : {0, 2 * Unit}]

InitWrap ==
    /\ op = "init"
    /\ css = ""
    /\ sheet = Stylesheet(<<>>)
    /\ styleAttr = ""
    /\ node = DivNode
    /\ ctx = EmptyContext
    /\ parentFontSize = DefaultFontSize
    /\ style = DefaultStyle
    /\ NoTable
    /\ NoLayout
    /\ NoList
    /\ NoMatch
    /\ wrapArgs \in WrapInputs
    /\ wrapLines = <<>>

NextWrap == CallWrapTextWithSpacing

SpecWrap == InitWrap /\ [][NextWrap]_vars

measured(line) ==
    MeasureTextWithSpacingAndWordSpacing(line, wrapArgs.fontSize, wrapArgs.letterSpacing,
                                         wrapArgs.wordSpacing)

\* the words of the lines, in order
RECURSIVE wordsOf(_)
wordsOf(lines) == IF lines = <<>> THEN <<>> ELSE Fields(Head(lines)) \o wordsOf(Tail(lines))

\* C28: for maxWidth > 0 every returned line of more than one word measures
\* at most maxWidth, the first and the last line with the space of the input
\* put back on them; the words are those of the input, whole and in order.
WrapWithinLimit ==
    (op = "WrapTextWithSpacing" /\ wrapArgs.maxWidth > 0)
    => /\ \A i \in 1..Len(wrapLines) :
              Len(Fields(wrapLines[i])) > 1 => measured(wrapLines[i]) <= wrapArgs.maxWidth
       /\ wordsOf(wrapLines) = Fields(wrapArgs.text)

\* the same of the lines as they were before the spaces went back on them
WrapWithinLimitTrimmed ==
    (op = "WrapTextWithSpacing" /\ wrapArgs.maxWidth > 0)
    => /\ \A i \in 1..Len(wrapLines) :
              Len(Fields(wrapLines[i])) > 1
              => measured(TrimSpace(wrapLines[i])) <= wrapArgs.maxWidth
       /\ wordsOf(wrapLines) = Fields(wrapArgs.text)

(***************************************************************************)
(* The grid slots of the cells, on the tables of SpecTable.                *)
(***************************************************************************)
\* the columns cell i of a row takes
slotsOf(row, rowCols, i) == rowCols[i]..(rowCols[i] + getCellColSpan(row[i]) - 1)

slotsApart(rows, cols) ==
    \A r \in 1..Len(rows) : \A i \in 1..Len(rows[r]) :
        /\ slotsOf(rows[r], cols[r], i) \cap reservedIn(rows, cols, r) = {}
        /\ \A j \in 1..Len(rows[r]) :
               j # i => slotsOf(rows[r], cols[r], i) \cap slotsOf(rows[r], cols[r], j) = {}

slotsInside(rows, cols) ==
    \A r \in 1..Len(rows) : \A i \in 1..Len(rows[r]) :
        slotsOf(rows[r], cols[r], i) \subseteq 0..(grid.numCols - 1)

\* C29: the columns [c, c + colspan) of a cell hold no slot of its row that
\* a rowspan cell of an earlier row reserves and no column of another cell
\* of the row, and they lie inside [0, column count).
NoSharedSlot ==
    (op = "computeTableLayout" /\ grid.numCols > 0)
    => /\ slotsApart(table.rows, columnsOf(grid.cells))
       /\ slotsInside(table.rows, columnsOf(grid.cells))

\* the half of C29 about the column count
SlotsInsideGrid ==
    (op = "computeTableLayout" /\ grid.numCols > 0)
    => slotsInside(table.rows, columnsOf(grid.cells))

(***************************************************************************)
(* SpecKeep: blocks and fieldsets of up to MaxKeepChildren children in     *)
(* any order: texts, legends, positioned and floated boxes, and blocks     *)
(* that hold such children themselves.                                     *)
(***************************************************************************)
MaxKeepChildren == 3

Legend(t) == LayoutBox("LegendBox", "legend", DefaultStyle, "", <<Text(t)>>)
Fieldset(children) == LayoutBox("FieldsetBox", "fieldset", DefaultStyle, "", children)

\* <div style="position: fixed; float: left">
FixedFloat == [Block("div", DefaultStyle, <<>>) EXCEPT !.Position = "fixed", !.Float = "left"]

KeepPool ==
    {Text("Hi"), Legend("A"), Legend("B"), AbsoluteBlock, FloatBlock, FixedFloat,
     Block("div", DefaultStyle, <<FloatBlock, AbsoluteBlock, Text("Hi")>>),
     Fieldset(<<AbsoluteBlock, Text("Hi"), Legend("A")>>),
     Inline("span", <<Block("div", DefaultStyle, <<AbsoluteBlock, Text("Hi")>>)>>)}

InitKeep ==
    InitLayoutOf({Block("div", DefaultStyle, children) :
                     children \in SeqsUpTo(KeepPool, MaxKeepChildren)}
                 \cup {Fieldset(children) : children \in SeqsUpTo(KeepPool, MaxKeepChildren)},
                 {120 * Unit})

SpecKeep == InitKeep /\ [][NextLayout]_vars

\* what tells a box from another: the tag stands for the Node
RECURSIVE identityOf(_)
identityOf(b) ==
    [Type |-> b.Type, Text |-> b.Text, TagName |-> b.TagName, Position |-> b.Position,
     Float |-> b.Float, Children |-> [i \in 1..Len(b.Children) |-> identityOf(b.Children[i])]]

\* the first legend in the normal flow of a fieldset
leadingLegend(b, i) ==
    /\ b.Type = "FieldsetBox"
    /\ b.Children[i].Type = "LegendBox"
    /\ isNormal(b.Children[i])
    /\ \A j \in 1..(i - 1) : ~(b.Children[j].Type = "LegendBox" /\ isNormal(b.Children[j]))

\* the group of child i of b: the leading legend, the normal flow, the
\* absolute and fixed boxes, the floats
groupOf(b, i) ==
    IF isPositioned(b.Children[i]) THEN 2
    ELSE IF isFloated(b.Children[i]) THEN 3
    ELSE IF leadingLegend(b, i) THEN 0
    ELSE 1

childrenOfGroup(b, g) ==
    LET idx == SelectSeq([i \in 1..Len(b.Children) |-> i], LAMBDA i : groupOf(b, i) = g)
    IN [k \in 1..Len(idx) |-> b.Children[idx[k]]]

regrouped(b) ==
    childrenOfGroup(b, 0) \o childrenOfGroup(b, 1) \o childrenOfGroup(b, 2)
    \o childrenOfGroup(b, 3)

\* the children of a block that block layout lays out as blocks in turn
laidAsBlock(c) ==
    \/ isPositioned(c)
    \/ isFloated(c)
    \/ c.Type \notin InlineLevelTypes \cup {"LegendBox", "HRBox", "BRBox", "TableBox"}

\* the identity of b after layout: regrouped where block layout reaches
RECURSIVE keptIdentity(_, _)
keptIdentity(b, reached) ==
    [Type |-> b.Type, Text |-> b.Text, TagName |-> b.TagName, Position |-> b.Position,
     Float |-> b.Float,
     Children |-> IF reached
                  THEN [i \in 1..Len(b.Children) |->
                           keptIdentity(regrouped(b)[i], laidAsBlock(regrouped(b)[i]))]
                  ELSE [i \in 1..Len(b.Children) |-> keptIdentity(b.Children[i], FALSE)]]

====
